---- MODULE Spec2Model ----
(***************************************************************************)
(* The data-fetch layer of the tickets dashboard: src/app/utils.py (the    *)
(* session cache, fetch_data and its record parser) and the login/logout   *)
(* handlers of src/app/main.py.                                            *)
(*                                                                         *)
(* A Python str is a sequence of one-character strings; a DataFrame is a   *)
(* sequence of records (functions from column name to cell text), held in  *)
(* a heap of objects so that df.copy() and aliasing are visible.           *)
(***************************************************************************)
EXTENDS Integers, Sequences, FiniteSets, TLC

VARIABLES
    env_username,      \* os.getenv("USERNAME_RT") ("" when unset)
    username,          \* st.session_state.username
    password,          \* st.session_state.password
    logged_in,         \* st.session_state.logged_in
    cookie_jar,        \* st.session_state.cookie_jar
    session_attrs,     \* which of data_cache / cache_timestamps exist in st.session_state
    data_cache,        \* st.session_state.data_cache: cache key -> object id
    cache_timestamps,  \* st.session_state.cache_timestamps: cache key -> time
    heap,              \* the live DataFrame objects: object id -> table
    ret,               \* the DataFrame the last fetch_data returned to its caller
    now,               \* datetime.now(), in ticks
    upstream,          \* what the ticket system answers now, per year
    call,              \* the last handler that ran, with what it did
    origin,            \* history: per request, the table as fetched when its entry was stored
    stale,             \* history: the keys whose entry was stored before the last logout
    last_empty,        \* history: per key, whether its latest fetch got an empty upstream result
    arg,               \* input of the pure function under check
    res,               \* its result
    pc                 \* "in" before the function is applied, "out" after

vars == <<env_username, username, password, logged_in, cookie_jar, session_attrs,
          data_cache, cache_timestamps, heap, ret, now, upstream, call,
          origin, stale, last_empty, arg, res, pc>>

sessionVars == <<env_username, username, password, logged_in, cookie_jar>>
cacheVars == <<session_attrs, data_cache, cache_timestamps>>
historyVars == <<origin, stale, last_empty>>
fnVars == <<arg, res, pc>>

-----------------------------------------------------------------------------
(* Python str operations, on sequences of characters *)

Whitespace == {" ", "\n"}

\* The concatenation of a sequence of strings.
RECURSIVE Str(_)
Str(pieces) ==
    IF pieces = <<>> THEN <<>> ELSE Head(pieces) \o Str(Tail(pieces))

\* str.find: the least index at which sub occurs in s, 0 when it does not.
RECURSIVE FindFrom(_, _, _)
FindFrom(s, sub, i) ==
    IF i + Len(sub) - 1 > Len(s) THEN 0
    ELSE IF SubSeq(s, i, i + Len(sub) - 1) = sub THEN i
    ELSE FindFrom(s, sub, i + 1)

find(s, sub) == FindFrom(s, sub, 1)

\* `sub in s`
contains(s, sub) == find(s, sub) # 0

\* s.split(sep): the parts between the non-overlapping occurrences of sep,
\* scanning from the left.
RECURSIVE split(_, _)
split(s, sep) ==
    LET i == find(s, sep)
    IN IF i = 0 THEN <<s>>
       ELSE <<SubSeq(s, 1, i - 1)>> \o split(SubSeq(s, i + Len(sep), Len(s)), sep)

\* s.split(sep, 1) for an s that contains sep: <<before, after>> the first sep.
split1(s, sep) ==
    LET i == find(s, sep)
    IN <<SubSeq(s, 1, i - 1), SubSeq(s, i + Len(sep), Len(s))>>

RECURSIVE lstrip(_)
lstrip(s) ==
    IF s # <<>> /\ Head(s) \in Whitespace THEN lstrip(Tail(s)) ELSE s

RECURSIVE rstrip(_)
rstrip(s) ==
    IF s # <<>> /\ s[Len(s)] \in Whitespace THEN rstrip(SubSeq(s, 1, Len(s) - 1)) ELSE s

\* s.strip()
strip(s) == rstrip(lstrip(s))

DigitChars == <<"0", "1", "2", "3", "4", "5", "6", "7", "8", "9">>

\* str(n) of a natural number, as an f-string formats it
RECURSIVE str_int(_)
str_int(n) ==
    IF n < 10 THEN <<DigitChars[n + 1]>>
    ELSE str_int(n \div 10) \o <<DigitChars[(n % 10) + 1]>>

-----------------------------------------------------------------------------
(* Timestamps: pd.to_datetime and timedelta *)

\* A timestamp is a number of seconds since 2000-01-01 00:00:00; <<t>> is a
\* parsed timestamp and <<>> none (a value that did not parse).
NoTime == <<>>

Digits == {"0", "1", "2", "3", "4", "5", "6", "7", "8", "9"}

IsNumber(s) == s # <<>> /\ \A i \in 1..Len(s) : s[i] \in Digits

DigitValue(c) == CHOOSE n \in 0..9 : <<"0", "1", "2", "3", "4", "5", "6", "7", "8", "9">>[n + 1] = c

\* int(s) of a string of digits
RECURSIVE int(_)
int(s) ==
    IF s = <<>> THEN 0 ELSE 10 * int(SubSeq(s, 1, Len(s) - 1)) + DigitValue(s[Len(s)])

is_leap(y) == (y % 4 = 0 /\ y % 100 # 0) \/ y % 400 = 0

days_in_month(y, m) ==
    IF m = 2 THEN (IF is_leap(y) THEN 29 ELSE 28)
    ELSE IF m \in {4, 6, 9, 11} THEN 30 ELSE 31

RECURSIVE days_before_month(_, _)
days_before_month(y, m) ==
    IF m = 1 THEN 0 ELSE days_before_month(y, m - 1) + days_in_month(y, m - 1)

RECURSIVE days_before_year(_)
days_before_year(y) ==
    IF y <= 2000 THEN 0
    ELSE days_before_year(y - 1) + (IF is_leap(y - 1) THEN 366 ELSE 365)

SecondsPerDay == 24 * 60 * 60

\* The timestamp of a valid date and time of day, none otherwise.
Timestamp(y, m, d, hh, mm, ss) ==
    IF /\ y \in 2000..2030
       /\ m \in 1..12
       /\ d \in 1..days_in_month(y, m)
       /\ hh \in 0..23 /\ mm \in 0..59 /\ ss \in 0..59
    THEN <<(days_before_year(y) + days_before_month(y, m) + (d - 1)) * SecondsPerDay
             + (hh * 60 + mm) * 60 + ss>>
    ELSE NoTime

\* t + timedelta(days=n)
add_days(t, n) == <<t[1] + n * SecondsPerDay>>

DayNames ==
    {<<"M", "o", "n">>, <<"T", "u", "e">>, <<"W", "e", "d">>, <<"T", "h", "u">>,
     <<"F", "r", "i">>, <<"S", "a", "t">>, <<"S", "u", "n">>}

MonthNames ==
    <<<<"J", "a", "n">>, <<"F", "e", "b">>, <<"M", "a", "r">>, <<"A", "p", "r">>,
      <<"M", "a", "y">>, <<"J", "u", "n">>, <<"J", "u", "l">>, <<"A", "u", "g">>,
      <<"S", "e", "p">>, <<"O", "c", "t">>, <<"N", "o", "v">>, <<"D", "e", "c">>>>

NonEmpty(s) == s # <<>>

\* The parts of s between runs of spaces.
words(s) == SelectSeq(split(s, <<" ">>), NonEmpty)

\* %H:%M:%S, as <<hh, mm, ss>>, or <<>> when the text is not of that form
time_of_day(s) ==
    LET p == split(s, <<":">>)
    IN IF /\ Len(p) = 3
          /\ \A i \in 1..3 : IsNumber(p[i]) /\ Len(p[i]) <= 2
       THEN <<int(p[1]), int(p[2]), int(p[3])>>
       ELSE <<>>

\* The timestamp of a text in the format '%a %b %d %H:%M:%S %Y' (the day name
\* is matched and not compared with the date), none for any other text.
strptime(s) ==
    LET w == words(s)
    IN IF /\ Len(w) = 5
          /\ w[1] \in DayNames
          /\ \E m \in 1..12 : MonthNames[m] = w[2]
          /\ IsNumber(w[3]) /\ Len(w[3]) <= 2
          /\ time_of_day(w[4]) # <<>>
          /\ IsNumber(w[5]) /\ Len(w[5]) = 4
       THEN LET m == CHOOSE m \in 1..12 : MonthNames[m] = w[2]
                t == time_of_day(w[4])
            IN Timestamp(int(w[5]), m, int(w[3]), t[1], t[2], t[3])
       ELSE NoTime

\* pd.to_datetime of a date 'YYYY-MM-DD': midnight at the start of that day.
to_datetime_date(s) ==
    LET p == split(s, <<"-">>)
    IN IF Len(p) = 3 /\ \A i \in 1..3 : IsNumber(p[i])
       THEN Timestamp(int(p[1]), int(p[2]), int(p[3]), 0, 0, 0)
       ELSE NoTime

-----------------------------------------------------------------------------
(* The record parser of fetch_data *)

ColonSpace == <<":", " ">>
DashDash == <<"-", "-">>
Newline == <<"\n">>

EmptyRecord == [k \in {} |-> <<>>]

\* The inner loop over the lines of one entry: a line holding ": " sets
\* record[key.strip()] = value.strip(), a later line overwriting an earlier one.
RECURSIVE parse_lines(_, _)
parse_lines(lines, record) ==
    IF lines = <<>> THEN record
    ELSE LET line == Head(lines)
             kv == split1(line, ColonSpace)
         IN parse_lines(Tail(lines),
                IF contains(line, ColonSpace)
                THEN (strip(kv[1]) :> strip(kv[2])) @@ record
                ELSE record)

\* for line in entry.strip().split("\n")
parse_entry(entry) == parse_lines(split(strip(entry), Newline), EmptyRecord)

\* The outer loop: a record is appended only when it is not empty.
RECURSIVE parse_entries(_)
parse_entries(data) ==
    IF data = <<>> THEN <<>>
    ELSE LET record == parse_entry(Head(data))
         IN (IF record # EmptyRecord THEN <<record>> ELSE <<>>) \o parse_entries(Tail(data))

\* records of response.text.split('--'); pd.DataFrame(records) keeps them in order.
parse_response(text) == parse_entries(split(text, DashDash))

\* df.empty
empty(df) == Len(df) = 0

-----------------------------------------------------------------------------
(* Bounds and inputs *)

CACHE_TTL_HOURS == 1

\* The resolution of the clock: ticks per hour.
TicksPerHour == 2

\* The clock stops advancing here.
MaxTime == 3

TTL == CACHE_TTL_HOURS * TicksPerHour

Years == {2023, 2024}

\* config[...]['query']
Queries == {<<"q">>}

Created == <<"C", "r", "e", "a", "t", "e", "d">>
Comma == <<",">>
Id == <<"i", "d">>

\* config[...]['fields']: with and without Created
FieldInputs == {Id, Id \o Comma \o Created}

Passwords == {<<"p">>}

Ok200 == <<"2", "0", "0", " ", "O", "k">>

\* Bodies the ticket system answers a login with.
LoginResponses == {<<"R", "T", " ">> \o Ok200, <<"R", "T", " ", "4", "0", "1">>}

\* Bodies the ticket system answers a search with: no ticket, or two tickets
\* (the second without a Created line).
NoTickets == <<"n", "o", "\n">>
OneTicket == Id \o ColonSpace \o <<"1", "\n">> \o Created \o ColonSpace \o <<"a", "\n">>
TwoTickets == OneTicket \o DashDash \o Newline \o Id \o ColonSpace \o <<"2", "\n">>

Responses == {NoTickets, TwoTickets}

\* The company column of the customer overview.
CompanyField ==
    <<"C", "F", ".", "{", "C", "o", "m", "p", "a", "n", "y", " ", "n", "a", "m", "e", "}">>

\* config['customers_overview']['query_parameters']['fields']
CustomerFields == Id \o Comma \o CompanyField

Midnight == <<"0", "0", ":", "0", "0", ":", "0", "0">>
Noon == <<"1", "2", ":", "0", "0", ":", "0", "0">>
LastSecond == <<"2", "3", ":", "5", "9", ":", "5", "9">>

\* A Created text as the ticket system writes it.
created_text(m, d, time, y) ==
    <<"M", "o", "n", " ">> \o MonthNames[m] \o <<" ">> \o d \o <<" ">> \o time
        \o <<" ">> \o str_int(y)

\* One ticket of a search body: its id, Created and (unless `company` is
\* empty) company lines.
ticket(id, created, company) ==
    Id \o ColonSpace \o id \o Newline
        \o Created \o ColonSpace \o created \o Newline
        \o (IF company = <<>> THEN <<>> ELSE CompanyField \o ColonSpace \o company \o Newline)

\* Two tickets of a year, of February and of May.
two_tickets(year, company1, company2) ==
    ticket(<<"1">>, created_text(2, <<"1", "0">>, Noon, year), company1)
        \o DashDash \o Newline
        \o ticket(<<"2">>, created_text(5, <<"1", "0">>, Noon, year), company2)

\* The years the customer overview asks for: from START_YEAR on.
PageYears == 2018..2020

\* What the ticket system can answer for a year: no ticket; tickets of
\* companies A and B, or B and C; a ticket without the company field; a
\* ticket whose Created is not a date, with another whose Created is.
PageBodies(year) ==
    {NoTickets,
     two_tickets(year, <<"A">>, <<"B">>),
     two_tickets(year, <<"B">>, <<"C">>),
     ticket(<<"1">>, created_text(2, <<"1", "0">>, Noon, year), <<>>),
     ticket(<<"1">>, <<"N", "o", "t", " ", "s", "e", "t">>, <<"A">>)
         \o DashDash \o Newline
         \o ticket(<<"2">>, created_text(5, <<"1", "0">>, Noon, year), <<"B">>)}

PageResponses == UNION {PageBodies(year) : year \in PageYears}

-----------------------------------------------------------------------------
(* fetch_data: the field list and the cache key *)

\* if 'Created' not in fields: fields = f"{fields},Created"
ensure_created(fields) ==
    IF ~contains(fields, Created) THEN fields \o Comma \o Created ELSE fields

\* hashlib.md5(...).hexdigest(), taken to be free of collisions
md5(s) == <<"m", "d", "5", "(">> \o s \o <<")">>

key_string(year, query, fields, user) ==
    str_int(year) \o <<"_">> \o query \o <<"_">> \o fields \o <<"_">> \o user

\* A key that leaves the year out.
get_cache_key_noyear(year, query, fields) ==
    md5(query \o <<"_">> \o fields \o <<"_">> \o username)

get_cache_key(year, query, fields) ==
    md5(key_string(year, query, fields, username))

\* What the search request is about: the URL and query built from year, query
\* and fields.
Request(year, query, fields) == <<year, query, fields>>

Requests == {Request(y, q, ensure_created(f)) : y \in Years, q \in Queries, f \in FieldInputs}

\* requests.post(full_url, cookies=cookie_jar).text
post(year, query, fields) == upstream[Request(year, query, fields)]

-----------------------------------------------------------------------------
(* DataFrame objects *)

\* Objects are named after the place that created them: the table stored
\* under a cache key, or a table handed to the caller.
NoObject == <<>>

\* The object set_cached_data creates for cache_key.
Stored(cache_key) == <<"data_cache">> \o cache_key

\* A new object for the caller, named apart from the live ones.
NewDf(h) == IF <<"df">> \notin DOMAIN h THEN <<"df">> ELSE <<"df", "2">>

\* An aliasing copy: the same object.
copy_alias(id, new) == id

\* df.copy(): a new object, `new`
copy(id, new) == new

\* The heap with object `id` holding `df`.
Put(h, id, df) == (id :> df) @@ h

Range(f) == {f[k] : k \in DOMAIN f}

\* Reference counting: only the objects the cache or the caller holds live on.
Collect(h, dc, r) == [i \in DOMAIN h \cap (Range(dc) \cup {r}) |-> h[i]]

-----------------------------------------------------------------------------
(* The session cache of utils.py *)

EmptyMap == [k \in {} |-> 0]

\* init_cache(): the two attributes exist afterwards (as {} when they were absent)
init_cache == session_attrs \cup {"data_cache", "cache_timestamps"}

\* A wrong comparison: the entry is taken to be valid up to and including the TTL.
is_cache_valid_le(cache_key) ==
    /\ cache_key \in DOMAIN cache_timestamps
    /\ now - cache_timestamps[cache_key] <= TTL

\* A wrong comparison: the entry is taken to be valid only once the TTL has passed.
is_cache_valid_gt(cache_key) ==
    /\ cache_key \in DOMAIN cache_timestamps
    /\ now - cache_timestamps[cache_key] > TTL

is_cache_valid(cache_key) ==
    /\ cache_key \in DOMAIN cache_timestamps
    /\ now - cache_timestamps[cache_key] < TTL

\* get_cached_data(cache_key): the object it returns, a copy of the stored
\* table, or NoObject for None.
get_cached_data(cache_key) ==
    IF cache_key \in DOMAIN data_cache /\ is_cache_valid(cache_key)
    THEN copy(data_cache[cache_key], NewDf(Collect(heap, data_cache, NoObject)))
    ELSE NoObject

\* The store condition without the emptiness test.
should_store_empty(use_cache, df) == use_cache

\* The store condition without the use_cache test.
should_store_always(use_cache, df) == ~empty(df)

\* if use_cache and not df.empty
should_store(use_cache, df) == use_cache /\ ~empty(df)

\* clear_cache() that resets the tables and forgets the timestamps.
clear_cache_tables_only ==
    /\ data_cache' = EmptyMap
    /\ heap' = Collect(heap, EmptyMap, ret)
    /\ origin' = EmptyMap
    /\ stale' = {}
    /\ call' = [op |-> "clear_cache", request |-> <<>>, key |-> <<>>, use_cache |-> FALSE,
                served |-> "none", requests |-> 0, prev_empty |-> "no"]
    /\ UNCHANGED <<sessionVars, session_attrs, cache_timestamps, ret, now, upstream,
                   last_empty, fnVars>>

\* clear_cache(): each attribute is reset only when it exists. No handler of
\* the application calls it.
clear_cache ==
    /\ data_cache' = EmptyMap
    /\ cache_timestamps' = EmptyMap
    /\ heap' = Collect(heap, EmptyMap, ret)
    /\ origin' = EmptyMap
    /\ stale' = {}
    /\ call' = [op |-> "clear_cache", request |-> <<>>, key |-> <<>>, use_cache |-> FALSE,
                served |-> "none", requests |-> 0, prev_empty |-> "no"]
    /\ UNCHANGED <<sessionVars, session_attrs, ret, now, upstream, last_empty, fnVars>>

-----------------------------------------------------------------------------
(* Handlers *)

\* What a handler other than fetch_data leaves in `call`.
Handled(op) ==
    [op |-> op, request |-> <<>>, key |-> <<>>, use_cache |-> FALSE,
     served |-> "none", requests |-> 0, prev_empty |-> "no"]

\* Whether the latest fetch for cache_key got an empty upstream result, and
\* with which use_cache.
LastEmpty(cache_key) ==
    IF cache_key \in DOMAIN last_empty THEN last_empty[cache_key] ELSE "no"

\* The tables of the search bodies, parsed once.
Parsed == [text \in Responses \cup PageResponses |-> parse_response(text)]

Empties(df, use_cache) ==
    IF ~empty(df) THEN "no" ELSE IF use_cache THEN "cached" ELSE "uncached"

ReportPages ==
    {"help_overview", "domains", "idm_tickets", "response_time", "requestors",
     "customer_overview"}

\* Every page navigable whatever logged_in is.
navigation_all_pages == {"login", "logout"} \cup ReportPages

\* main(): the pages st.navigation is given.
navigation == IF logged_in THEN {"logout"} \cup ReportPages ELSE {"login"}

\* fetch_data(year, query, fields, use_cache), reached from a report page, which
\* main() makes navigable only while logged_in: what the call does to the
\* cache and what it returns.
fetch_data_call(year, query, fields, use_cache) ==
    LET fields2 == ensure_created(fields)
        cache_key == get_cache_key(year, query, fields2)
        cached_df == IF use_cache THEN get_cached_data(cache_key) ELSE NoObject
    IN
    /\ ReportPages \cap navigation # {}
    /\ session_attrs' = IF use_cache THEN init_cache ELSE session_attrs
    /\ IF cached_df # NoObject
       THEN \* Cache hit: return cached_df
            /\ ret' = cached_df
            /\ heap' = Collect(Put(heap, cached_df, heap[data_cache[cache_key]]),
                               data_cache, cached_df)
            /\ call' = [op |-> "fetch_data", request |-> Request(year, query, fields2),
                        key |-> cache_key, use_cache |-> use_cache,
                        served |-> "cache", requests |-> 0,
                        prev_empty |-> LastEmpty(cache_key)]
            /\ last_empty' = (cache_key :> "no") @@ last_empty
            /\ UNCHANGED <<data_cache, cache_timestamps, origin, stale>>
       ELSE \* One POST, parsed into a new DataFrame df
            LET rows == Parsed[post(year, query, fields2)]
                df == NewDf(Collect(heap, data_cache, NoObject))
                h1 == Put(heap, df, rows)
                store == should_store(use_cache, rows)
                \* set_cached_data(cache_key, df)
                stored == copy(df, Stored(cache_key))
                h2 == IF store THEN Put(h1, stored, h1[df]) ELSE h1
                dc2 == IF store THEN (cache_key :> stored) @@ data_cache ELSE data_cache
            IN
            /\ ret' = df
            /\ data_cache' = dc2
            /\ cache_timestamps' =
                   IF store THEN (cache_key :> now) @@ cache_timestamps
                   ELSE cache_timestamps
            /\ heap' = Collect(h2, dc2, df)
            /\ call' = [op |-> "fetch_data", request |-> Request(year, query, fields2),
                        key |-> cache_key, use_cache |-> use_cache,
                        served |-> "upstream", requests |-> 1,
                        prev_empty |-> LastEmpty(cache_key)]
            /\ origin' = IF store THEN (Request(year, query, fields2) :> rows) @@ origin
                          ELSE origin
            /\ stale' = IF store THEN stale \ {cache_key} ELSE stale
            /\ last_empty' = (cache_key :> Empties(rows, use_cache)) @@ last_empty

\* A fetch_data call made on its own.
fetch_data(year, query, fields, use_cache) ==
    /\ fetch_data_call(year, query, fields, use_cache)
    /\ UNCHANGED <<sessionVars, now, upstream, fnVars>>

NaT == <<"N", "a", "T">>

\* The Created texts that are in the format '%a %b %d %H:%M:%S %Y'.
WellFormed(v) == strptime(v) # NoTime

\* pd.to_datetime(..., format='%a %b %d %H:%M:%S %Y', errors='coerce') of one
\* cell: a datetime64 value, written "@" and its seconds, or NaT
to_datetime(v) == IF WellFormed(v) THEN <<"@">> \o str_int(strptime(v)[1]) ELSE NaT

\* The timestamp of a datetime64 cell, none for NaT.
value(cell) == IF cell = NaT THEN NoTime ELSE <<int(Tail(cell))>>

columns(df) == UNION {DOMAIN df[i] : i \in 1..Len(df)}

\* df['Created'] = pd.to_datetime(df['Created'], ...): every row gets the
\* converted cell, a row without the field NaT.
assign_created(df) ==
    [i \in 1..Len(df) |->
        (Created :> (IF Created \in DOMAIN df[i] THEN to_datetime(df[i][Created]) ELSE NaT))
            @@ df[i]]

\* The caller converts the Created column of the table fetch_data just
\* returned, in place (the quarters-mode loop of a report page).
convert_created ==
    /\ call.op = "fetch_data"
    /\ ret # NoObject
    /\ ~empty(heap[ret])
    /\ Created \in columns(heap[ret])
    /\ heap' = [heap EXCEPT ![ret] = assign_created(heap[ret])]
    /\ call' = [call EXCEPT !.op = "convert_created"]
    /\ UNCHANGED <<sessionVars, cacheVars, ret, now, upstream, historyVars, fnVars>>

\* login() that takes any response for a success.
login_any_response(pw, response) ==
    /\ "login" \in navigation
    /\ IF username # <<>>
       THEN /\ cookie_jar' = "cookies"
            /\ logged_in' = TRUE
            /\ password' = pw
       ELSE UNCHANGED <<cookie_jar, logged_in, password>>
    /\ username' = env_username
    /\ ret' = NoObject
    /\ heap' = Collect(heap, data_cache, NoObject)
    /\ call' = [Handled("login") EXCEPT
                   !.request = IF username # <<>> THEN response ELSE <<>>]
    /\ UNCHANGED <<env_username, cacheVars, now, upstream, historyVars, fnVars>>

\* login(), with the rerun it asks for: the login page is the only page while
\* logged_in is false; call.request keeps the response body of the login
\* request, if one was made.
login(pw, response) ==
    /\ "login" \in navigation
    /\ IF username # <<>> /\ contains(response, Ok200)
       THEN /\ cookie_jar' = "cookies"
            /\ logged_in' = TRUE
            /\ password' = pw
       ELSE UNCHANGED <<cookie_jar, logged_in, password>>
    /\ username' = env_username
    /\ ret' = NoObject
    /\ heap' = Collect(heap, data_cache, NoObject)
    /\ call' = [Handled("login") EXCEPT
                   !.request = IF username # <<>> THEN response ELSE <<>>]
    /\ UNCHANGED <<env_username, cacheVars, now, upstream, historyVars, fnVars>>

\* logout(), with the rerun it asks for: main() sets username from the
\* environment again. The cache is left as it is.
logout ==
    /\ "logout" \in navigation
    /\ logged_in' = FALSE
    /\ username' = env_username
    /\ password' = <<>>
    /\ cookie_jar' = "None"
    /\ ret' = NoObject
    /\ heap' = Collect(heap, data_cache, NoObject)
    /\ call' = Handled("logout")
    /\ stale' = DOMAIN data_cache
    /\ UNCHANGED <<env_username, cacheVars, now, upstream, origin, last_empty, fnVars>>

-----------------------------------------------------------------------------
(* The environment *)

\* Time passes.
Tick ==
    /\ now < MaxTime
    /\ now' = now + 1
    /\ UNCHANGED <<sessionVars, cacheVars, heap, ret, upstream, call, historyVars, fnVars>>

\* The tickets matching a request change.
UpstreamChange(r, text) ==
    /\ upstream[r] # text
    /\ upstream' = [upstream EXCEPT ![r] = text]
    /\ UNCHANGED <<sessionVars, cacheVars, heap, ret, now, call, historyVars, fnVars>>

-----------------------------------------------------------------------------
(* The application *)

Init ==
    /\ env_username \in {<<>>, <<"u">>}
    /\ username = env_username
    /\ password = <<>>
    /\ logged_in = FALSE
    /\ cookie_jar = "None"
    /\ session_attrs = {}
    /\ data_cache = EmptyMap
    /\ cache_timestamps = EmptyMap
    /\ heap = EmptyMap
    /\ ret = NoObject
    /\ now = 0
    /\ upstream \in [Requests -> Responses]
    /\ call = Handled("main")
    /\ origin = EmptyMap
    /\ stale = {}
    /\ last_empty = EmptyMap
    /\ arg = <<>>
    /\ res = <<>>
    /\ pc = "off"

Next ==
    \/ \E pw \in Passwords, response \in LoginResponses : login(pw, response)
    \/ logout
    \/ \E year \in Years, query \in Queries, fields \in FieldInputs, use_cache \in BOOLEAN :
           fetch_data(year, query, fields, use_cache)
    \/ convert_created
    \/ Tick
    \/ \E r \in Requests, text \in Responses : UpstreamChange(r, text)

Spec == Init /\ [][Next]_vars

-----------------------------------------------------------------------------
(* Claims about the fetch cache, under Spec *)

\* The key fetch_data uses for (year, query, fields).
KeyOf(year, query, fields) == get_cache_key(year, query, ensure_created(fields))

Age(cache_key) == now - cache_timestamps[cache_key]

\* The table a caller holds, and the table stored under a key.
Returned == heap[ret]
StoredTable(cache_key) == heap[data_cache[cache_key]]

\* C1: a fetch_data call with use_cache=true that finds an entry for its key
\* whose age is strictly less than the TTL issues no upstream request and
\* returns a table equal to the stored one.
C1_HitWithinTTL ==
    [][\A year \in Years, query \in Queries, fields \in FieldInputs :
          LET k == KeyOf(year, query, fields)
          IN (/\ fetch_data(year, query, fields, TRUE)
              /\ k \in DOMAIN data_cache
              /\ k \in DOMAIN cache_timestamps
              /\ Age(k) < TTL)
             => (/\ call'.requests = 0
                 /\ call'.served = "cache"
                 /\ heap'[ret'] = StoredTable(k))]_vars

\* A hit has happened on an entry stored some time ago.
C1_Witness ==
    /\ call.op = "fetch_data"
    /\ call.served = "cache"
    /\ call.requests = 0
    /\ Age(call.key) > 0
    /\ Returned = StoredTable(call.key)

\* C2: a fetch_data call with use_cache=true that finds no entry for its key,
\* or one whose age is at least the TTL, does not return the stored table: it
\* issues exactly one upstream request and returns what that request gave.
C2_MissFetchesOnce ==
    [][\A year \in Years, query \in Queries, fields \in FieldInputs :
          LET k == KeyOf(year, query, fields)
          IN (/\ fetch_data(year, query, fields, TRUE)
              /\ (k \notin DOMAIN cache_timestamps \/ Age(k) >= TTL))
             => (/\ call'.requests = 1
                 /\ call'.served = "upstream"
                 /\ ret' \notin Range(data_cache)
                 /\ heap'[ret'] =
                        parse_response(upstream[Request(year, query, ensure_created(fields))]))]_vars

\* An expired entry was found, one request was made, and the (empty) answer
\* was returned in place of the stored table.
C2_Witness ==
    /\ call.op = "fetch_data"
    /\ call.use_cache
    /\ call.served = "upstream"
    /\ call.requests = 1
    /\ call.key \in DOMAIN cache_timestamps
    /\ Age(call.key) >= TTL
    /\ Returned # StoredTable(call.key)

\* C3, as claimed: a fetch served from the cache returns the table an
\* upstream request made at that moment would produce.
C3_HitEqualsFreshFetch ==
    [][\A year \in Years, query \in Queries, fields \in FieldInputs :
          (/\ fetch_data(year, query, fields, TRUE)
           /\ call'.served = "cache")
          => heap'[ret'] =
                 parse_response(upstream[Request(year, query, ensure_created(fields))])]_vars

\* C3, amended: a fetch served from the cache returns the table that the
\* upstream request for the same (year, query, fields) produced when the
\* entry was stored.
C3_HitEqualsStoredFetch ==
    [][\A year \in Years, query \in Queries, fields \in FieldInputs :
          LET r == Request(year, query, ensure_created(fields))
          IN (/\ fetch_data(year, query, fields, TRUE)
              /\ call'.served = "cache")
             => (r \in DOMAIN origin /\ heap'[ret'] = origin[r])]_vars

\* A hit returned a table that the ticket system no longer answers.
C3_Witness ==
    /\ call.op = "fetch_data"
    /\ call.served = "cache"
    /\ Returned = origin[call.request]
    /\ Returned # parse_response(upstream[call.request])

NoEmptyStored == \A k \in DOMAIN data_cache : ~empty(StoredTable(k))

\* C4, as claimed: the cache never holds an empty table, and the fetch after
\* any fetch that got an empty upstream result for the same key issues an
\* upstream request.
C4_EmptyNeverSticks ==
    /\ NoEmptyStored
    /\ (call.op = "fetch_data" /\ call.prev_empty # "no") => call.requests = 1

\* C4, amended: the cache never holds an empty table, and the fetch after a
\* fetch with use_cache=true that got an empty upstream result for the same
\* key issues an upstream request.
C4_CachedEmptyNeverSticks ==
    /\ NoEmptyStored
    /\ (call.op = "fetch_data" /\ call.prev_empty = "cached") => call.requests = 1

\* A cached fetch follows one for the same key that got an empty result, at
\* a time when another key has an entry.
C4_Witness ==
    /\ call.op = "fetch_data"
    /\ call.use_cache
    /\ call.prev_empty = "cached"
    /\ call.requests = 1
    /\ data_cache # EmptyMap

\* C5: a fetch_data call with use_cache=false always issues an upstream
\* request and leaves the cache (attributes, keys, tables, timestamps) as it
\* was.
C5_BypassLeavesCache ==
    [][\A year \in Years, query \in Queries, fields \in FieldInputs :
          fetch_data(year, query, fields, FALSE)
          => (/\ call'.requests = 1
              /\ call'.served = "upstream"
              /\ session_attrs' = session_attrs
              /\ data_cache' = data_cache
              /\ cache_timestamps' = cache_timestamps
              /\ \A k \in DOMAIN data_cache : heap'[data_cache'[k]] = StoredTable(k))]_vars

\* A fetch with use_cache=false went upstream although a valid entry
\* existed, and got another table than the stored one.
C5_Witness ==
    /\ call.op = "fetch_data"
    /\ ~call.use_cache
    /\ call.requests = 1
    /\ call.key \in DOMAIN data_cache
    /\ Age(call.key) < TTL
    /\ Returned # StoredTable(call.key)

\* C6: no table stored in the cache before a logout is returned by a
\* fetch_data call after it.
C6_LogoutClearsCache ==
    (call.op = "fetch_data" /\ call.served = "cache") => call.key \notin stale

\* Every handler and every fetch runs under the one identity the environment
\* gives: two fetches of a run never differ in the acting user.
IdentityIsFixed ==
    /\ username = env_username
    /\ \A k \in DOMAIN data_cache : \E year \in Years, query \in Queries, fields \in FieldInputs :
           k = md5(key_string(year, query, ensure_created(fields), env_username))

\* C8: the table stored for a request stays the table as originally fetched
\* whatever callers do to the tables they were handed, and a hit returns it.
C8_CallersDoNotShareTables ==
    /\ \A year \in Years, query \in Queries, fields \in FieldInputs :
          LET r == Request(year, query, ensure_created(fields))
              k == KeyOf(year, query, fields)
          IN k \in DOMAIN data_cache => (r \in DOMAIN origin /\ StoredTable(k) = origin[r])
    /\ (call.op = "fetch_data" /\ call.served = "cache") => ret \notin Range(data_cache)

\* A caller has changed the table it was handed, and the stored one is as fetched.
C8_Witness ==
    /\ call.op = "convert_created"
    /\ call.key \in DOMAIN data_cache
    /\ Returned # StoredTable(call.key)
    /\ StoredTable(call.key) = origin[call.request]

-----------------------------------------------------------------------------
(* The pure steps of fetch_data, each applied to every input up to a bound *)

\* The sequences over S of length at most n.
SeqsUpTo(S, n) == UNION {[1..m -> S] : m \in 0..n}

\* Everything but arg, res and pc at rest.
Quiet ==
    /\ env_username = <<>>
    /\ username = <<>>
    /\ password = <<>>
    /\ logged_in = FALSE
    /\ cookie_jar = "None"
    /\ session_attrs = {}
    /\ data_cache = EmptyMap
    /\ cache_timestamps = EmptyMap
    /\ heap = EmptyMap
    /\ ret = NoObject
    /\ now = 0
    /\ upstream = [r \in Requests |-> NoTickets]
    /\ call = Handled("main")
    /\ origin = EmptyMap
    /\ stale = {}
    /\ last_empty = EmptyMap

restVars == <<sessionVars, cacheVars, heap, ret, now, upstream, call, historyVars>>

\* The most pieces a fields argument is made of.
MaxFieldPieces == 3

\* Field lists built from the name Created, another name, a name part that
\* can follow either, and the comma.
FieldPieces == {Created, Id, <<"B", "y">>, Comma}

FieldTexts == {Str(p) : p \in SeqsUpTo(FieldPieces, MaxFieldPieces)}

InitFields ==
    /\ Quiet
    /\ arg \in FieldTexts
    /\ res = <<>>
    /\ pc = "in"

\* The field list fetch_data puts in the URL for the argument `fields`.
fields_sent ==
    /\ pc = "in"
    /\ res' = ensure_created(arg)
    /\ pc' = "out"
    /\ UNCHANGED <<restVars, arg>>

NextFields == fields_sent

SpecFields == InitFields /\ [][NextFields]_vars

\* The comma-separated entries of a field list.
entries(fields) == Range(split(fields, Comma))

\* C9: the field list sent upstream has Created as one of its
\* comma-separated entries: it is the argument with ",Created" appended when
\* the argument has no such entry, and the argument itself when it has one.
C9_CreatedAlwaysSent ==
    pc = "out" =>
        /\ Created \in entries(res)
        /\ Created \notin entries(arg) => res = arg \o Comma \o Created
        /\ Created \in entries(arg) => res = arg

\* The most pieces a response text is made of.
MaxParsePieces == 4

\* Response texts built from two names, the separators and their parts.
ParsePieces == {<<"k">>, <<"v">>, ColonSpace, <<":">>, <<" ">>, Newline, DashDash, <<"-">>}

ParseTexts == {Str(p) : p \in SeqsUpTo(ParsePieces, MaxParsePieces)}

InitParse ==
    /\ Quiet
    /\ arg \in ParseTexts
    /\ res = <<>>
    /\ pc = "in"

\* The records fetch_data makes of the response text.
records_parsed ==
    /\ pc = "in"
    /\ res' = parse_response(arg)
    /\ pc' = "out"
    /\ UNCHANGED <<restVars, arg>>

NextParse == records_parsed

SpecParse == InitParse /\ [][NextParse]_vars

HasField(line) == contains(line, ColonSpace)

\* The lines of a segment that hold ": ".
FieldLines(segment) == SelectSeq(split(segment, Newline), HasField)

HasFieldLine(segment) == FieldLines(segment) # <<>>

\* The `--`-delimited segments of a text that hold such a line.
FieldSegments(text) == SelectSeq(split(text, DashDash), HasFieldLine)

KeyOfLine(line) == strip(split1(line, ColonSpace)[1])
ValueOfLine(line) == strip(split1(line, ColonSpace)[2])

\* C10: the table has one record per `--`-delimited segment that has a line
\* with ": ", in segment order; the keys of a record are the trimmed texts
\* left of the first ": " of those lines of its segment, and each value is
\* the trimmed text right of it on such a line.
C10_RecordPerSegment ==
    pc = "out" =>
        LET segments == FieldSegments(arg)
        IN /\ Len(res) = Len(segments)
           /\ \A i \in 1..Len(segments) :
                 LET lines == FieldLines(segments[i])
                 IN /\ DOMAIN res[i] = {KeyOfLine(lines[j]) : j \in 1..Len(lines)}
                    /\ \A key \in DOMAIN res[i] :
                          \E j \in 1..Len(lines) :
                              /\ KeyOfLine(lines[j]) = key
                              /\ res[i][key] = ValueOfLine(lines[j])

-----------------------------------------------------------------------------
(* The quarter filter of utils.py *)

\* quarter_ranges: the first and last date of each quarter, as f-strings
quarter_ranges(year) ==
    LET y == str_int(year)
    IN <<<<y \o <<"-", "0", "1", "-", "0", "1">>, y \o <<"-", "0", "3", "-", "3", "1">>>>,
         <<y \o <<"-", "0", "4", "-", "0", "1">>, y \o <<"-", "0", "6", "-", "3", "0">>>>,
         <<y \o <<"-", "0", "7", "-", "0", "1">>, y \o <<"-", "0", "9", "-", "3", "0">>>>,
         <<y \o <<"-", "1", "0", "-", "0", "1">>, y \o <<"-", "1", "2", "-", "3", "1">>>>>>

get_quarter_date_range(year, quarter) == quarter_ranges(year)[quarter]

\* start_date = pd.to_datetime(start_date)
quarter_start(year, quarter) == to_datetime_date(get_quarter_date_range(year, quarter)[1])

\* An end date without the added day: midnight at the start of the last day.
quarter_end_last_midnight(year, quarter) ==
    to_datetime_date(get_quarter_date_range(year, quarter)[2])

\* end_date = pd.to_datetime(end_date) + timedelta(days=1)
quarter_end(year, quarter) ==
    add_days(to_datetime_date(get_quarter_date_range(year, quarter)[2]), 1)

\* A mask that leaves out the first instant of the range.
in_mask_after_start(cell, start_date, end_date) ==
    /\ value(cell) # NoTime
    /\ value(cell)[1] > start_date[1]
    /\ value(cell)[1] < end_date[1]

\* (df[date_column] >= start_date) & (df[date_column] < end_date) for one
\* cell; every comparison with NaT is False
in_mask(cell, start_date, end_date) ==
    /\ value(cell) # NoTime
    /\ value(cell)[1] >= start_date[1]
    /\ value(cell)[1] < end_date[1]

\* Whether a cell of the column is a datetime64 value.
IsDatetime(cell) == cell = NaT \/ (cell # <<>> /\ Head(cell) = "@")

\* pd.api.types.is_datetime64_any_dtype(df[date_column])
is_datetime64_any_dtype(df) ==
    \A i \in 1..Len(df) : Created \in DOMAIN df[i] /\ IsDatetime(df[i][Created])

\* df[mask]: the rows the mask selects, in order
RECURSIVE masked(_, _, _)
masked(df, start_date, end_date) ==
    IF df = <<>> THEN <<>>
    ELSE (IF in_mask(Head(df)[Created], start_date, end_date) THEN <<Head(df)>> ELSE <<>>)
             \o masked(Tail(df), start_date, end_date)

\* filter_df_by_quarter(df, year, quarter): `ret` is the table returned,
\* `df` the caller's table after the call, and `same` tells whether the
\* table returned is the caller's object itself.
filter_df_by_quarter(df, year, quarter) ==
    IF empty(df) THEN [ret |-> df, df |-> df, same |-> TRUE]
    ELSE IF Created \notin columns(df) THEN [ret |-> <<>>, df |-> df, same |-> FALSE]
    ELSE LET \* df = df.copy() before the column is assigned
             local == IF ~is_datetime64_any_dtype(df) THEN assign_created(df) ELSE df
         IN [ret |-> masked(local, quarter_start(year, quarter), quarter_end(year, quarter)),
             df |-> df,
             same |-> FALSE]

\* The condition fetch_data adds to the query, for a ticket created at t:
\* Created>'{year-1}-12-31' AND Created<'{year+1}-01-01', a date standing for
\* its midnight as in pd.to_datetime.
created_condition(year, t) ==
    /\ t[1] > to_datetime_date(str_int(year - 1) \o <<"-", "1", "2", "-", "3", "1">>)[1]
    /\ t[1] < to_datetime_date(str_int(year + 1) \o <<"-", "0", "1", "-", "0", "1">>)[1]

-----------------------------------------------------------------------------
(* The quarter filter applied to every table up to a bound *)

\* The most rows of a table.
MaxRows == 2

QuarterYears == {2023, 2024}

\* Created texts at the edges of the quarters and of the year, on a leap
\* day, and texts that are not in the format.
CreatedTexts ==
    {created_text(12, <<"3", "1">>, Noon, 2022),
     created_text(1, <<"0", "1">>, Midnight, 2023),
     created_text(3, <<"3", "1">>, LastSecond, 2023),
     created_text(4, <<"0", "1">>, Midnight, 2023),
     created_text(6, <<"3", "0">>, Noon, 2023),
     created_text(9, <<"3", "0">>, LastSecond, 2023),
     created_text(10, <<"1">>, Midnight, 2023),
     created_text(12, <<"3", "1">>, LastSecond, 2023),
     created_text(1, <<"0", "1">>, Midnight, 2024),
     created_text(2, <<"2", "9">>, Noon, 2024),
     created_text(2, <<"2", "9">>, Noon, 2023),
     <<"N", "o", "t", " ", "s", "e", "t">>}

\* The rows a table can have at position i: with a Created text, or without
\* the field.
RowsAt(i) ==
    {(Id :> str_int(i)) @@ (Created :> c) : c \in CreatedTexts} \cup {(Id :> str_int(i))}

Tables == UNION {{t \in [1..n -> UNION {RowsAt(i) : i \in 1..n}] : \A i \in 1..n : t[i] \in RowsAt(i)}
                    : n \in 0..MaxRows}

\* A table as fetched, or with its Created column already converted by the
\* caller (the quarters-mode loop of the customer overview).
InitQuarter ==
    /\ Quiet
    /\ \E t \in Tables, y \in QuarterYears, converted \in BOOLEAN :
          arg = [df |-> IF converted /\ ~empty(t) /\ Created \in columns(t)
                        THEN assign_created(t) ELSE t,
                 year |-> y]
    /\ res = <<>>
    /\ pc = "in"

\* The four quarters of arg.year taken from arg.df.
filter_quarters ==
    /\ pc = "in"
    /\ res' = [quarter \in 1..4 |-> filter_df_by_quarter(arg.df, arg.year, quarter)]
    /\ pc' = "out"
    /\ UNCHANGED <<restVars, arg>>

NextQuarter == filter_quarters

SpecQuarter == InitQuarter /\ [][NextQuarter]_vars

\* The time a row was created, none when the field is missing or does not parse.
created_time(row) ==
    IF Created \notin DOMAIN row THEN NoTime
    ELSE IF IsDatetime(row[Created]) THEN value(row[Created])
    ELSE strptime(row[Created])

\* Whether row i of the table is among the rows filtered for a quarter.
InQuarter(i, quarter) ==
    \E j \in 1..Len(res[quarter].ret) : res[quarter].ret[j][Id] = arg.df[i][Id]

\* A table the ticket system can answer the request for `year` with: every
\* ticket with a Created time meets the condition sent.
FetchedFor(df, year) ==
    \A i \in 1..Len(df) :
        created_time(df[i]) # NoTime => created_condition(year, created_time(df[i]))

InYear(t, year) ==
    /\ t # NoTime
    /\ t[1] >= Timestamp(year, 1, 1, 0, 0, 0)[1]
    /\ t[1] < Timestamp(year + 1, 1, 1, 0, 0, 0)[1]

\* C11, as claimed: of a table fetched for a year, the rows in some quarter
\* of that year are exactly the rows whose Created parses.
C11_QuartersCoverParsed ==
    (pc = "out" /\ FetchedFor(arg.df, arg.year)) =>
        \A i \in 1..Len(arg.df) :
            (\E quarter \in 1..4 : InQuarter(i, quarter)) <=> created_time(arg.df[i]) # NoTime

\* C11, amended: of a table fetched for a year, the rows in some quarter of
\* that year are exactly the rows whose Created parses and lies in that
\* calendar year; a row whose Created does not parse, or lies on the last day
\* of the year before, is in none of the four.
C11_QuartersCoverYear ==
    (pc = "out" /\ FetchedFor(arg.df, arg.year)) =>
        \A i \in 1..Len(arg.df) :
            (\E quarter \in 1..4 : InQuarter(i, quarter)) <=> InYear(created_time(arg.df[i]), arg.year)

\* A fetched table with a ticket of the last second of the year, which is in
\* the fourth quarter, and a ticket whose Created does not parse, in none.
C11_Witness ==
    /\ pc = "out"
    /\ FetchedFor(arg.df, arg.year)
    /\ Len(arg.df) = 2
    /\ created_time(arg.df[1]) = Timestamp(arg.year, 12, 31, 23, 59, 59)
    /\ InQuarter(1, 4)
    /\ Created \in DOMAIN arg.df[2]
    /\ created_time(arg.df[2]) = NoTime
    /\ \A quarter \in 1..4 : ~InQuarter(2, quarter)

\* The half-open interval of a quarter: Q1 = [Jan 1, Apr 1), Q2 = [Apr 1, Jul 1),
\* Q3 = [Jul 1, Oct 1), Q4 = [Oct 1, next Jan 1).
QuarterFrom(year, quarter) == Timestamp(year, 3 * quarter - 2, 1, 0, 0, 0)
QuarterUntil(year, quarter) ==
    IF quarter = 4 THEN Timestamp(year + 1, 1, 1, 0, 0, 0)
    ELSE Timestamp(year, 3 * quarter + 1, 1, 0, 0, 0)

InInterval(t, from, until) == t # NoTime /\ t[1] >= from[1] /\ t[1] < until[1]

\* A row with its Created as a timestamp.
Dated(row) == (Created :> <<"@">> \o str_int(created_time(row)[1])) @@ row

\* The rows of df created in [from, until), in the order of df.
RECURSIVE RowsIn(_, _, _)
RowsIn(df, from, until) ==
    IF df = <<>> THEN <<>>
    ELSE (IF InInterval(created_time(Head(df)), from, until) THEN <<Dated(Head(df))>> ELSE <<>>)
             \o RowsIn(Tail(df), from, until)

\* C12: filter_df_by_quarter(T, y, q) returns, in the order of T, exactly the
\* rows of T (their Created as a timestamp) whose Created parses and lies in
\* the half-open interval of quarter q of year y; it returns an empty table
\* when T has no Created column, and T is after the call what it was before.
C12_QuarterIsHalfOpenInterval ==
    pc = "out" =>
        \A quarter \in 1..4 :
            /\ res[quarter].ret =
                   RowsIn(arg.df, QuarterFrom(arg.year, quarter), QuarterUntil(arg.year, quarter))
            /\ Created \notin columns(arg.df) => empty(res[quarter].ret)
            /\ res[quarter].df = arg.df

\* A ticket of the last second of March is in the first quarter and a ticket
\* of the first instant of April in the second.
C12_Witness ==
    /\ pc = "out"
    /\ Len(arg.df) = 2
    /\ created_time(arg.df[1]) = Timestamp(arg.year, 3, 31, 23, 59, 59)
    /\ created_time(arg.df[2]) = Timestamp(arg.year, 4, 1, 0, 0, 0)
    /\ Len(res[1].ret) = 1 /\ res[1].ret[1][Id] = arg.df[1][Id]
    /\ Len(res[2].ret) = 1 /\ res[2].ret[1][Id] = arg.df[2][Id]
    /\ res[3].ret = <<>>

-----------------------------------------------------------------------------
(* The customer overview page: sections/customer_overview.py *)

START_YEAR == 2018

\* A DataFrame a page holds: its rows and its columns, which a selection of
\* rows keeps even when no row is left.
Frame(df) == [columns |-> columns(df), rows |-> df]

NoFrame == Frame(<<>>)

\* The frame with its Created column converted (df['Created'] = pd.to_datetime(...)).
frame_converted(f) == [f EXCEPT !.rows = assign_created(f.rows)]

\* filter_df_by_quarter on a frame
frame_quarter(f, year, quarter) ==
    [f EXCEPT !.rows = filter_df_by_quarter(f.rows, year, quarter).ret]

\* Timestamp.month
month(t) ==
    CHOOSE m \in 1..12 : \E y \in 2000..2030 :
        /\ t[1] >= Timestamp(y, m, 1, 0, 0, 0)[1]
        /\ t[1] < add_days(Timestamp(y, m, 1, 0, 0, 0), days_in_month(y, m))[1]

\* df[df['Created'].dt.month < start_month]: the month of NaT is missing, and
\* a comparison with it False
RECURSIVE before_month(_, _)
before_month(df, start_month) ==
    IF df = <<>> THEN <<>>
    ELSE (IF value(Head(df)[Created]) # NoTime /\ month(value(Head(df)[Created])) < start_month
          THEN <<Head(df)>> ELSE <<>>)
             \o before_month(Tail(df), start_month)

\* The cells of the company column that are not missing.
RECURSIVE company_cells(_)
company_cells(df) ==
    IF df = <<>> THEN <<>>
    ELSE (IF CompanyField \in DOMAIN Head(df) THEN <<Head(df)[CompanyField]>> ELSE <<>>)
             \o company_cells(Tail(df))

\* process_companies_data(df): the number of tickets per company, or the
\* KeyError of df[company_field] when the frame has no such column.
process_companies_data(f) ==
    IF CompanyField \notin f.columns
    THEN [error |-> "KeyError", companies |-> EmptyMap]
    ELSE LET cells == company_cells(f.rows)
         IN [error |-> "",
             companies |-> [c \in Range(cells) |->
                               Cardinality({i \in 1..Len(cells) : cells[i] = c})]]

\* get_quarter_label: f"Q{quarter} {year}"
get_quarter_label(year, quarter) == <<"Q">> \o str_int(quarter) \o <<" ">> \o str_int(year)

\* The key of a period in dfs_by_period and all_companies.
label(filter_mode, period) ==
    IF filter_mode = "years" THEN str_int(period)
    ELSE get_quarter_label(period[1], period[2])

\* The year of a period.
year_of(filter_mode, period) == IF filter_mode = "years" THEN period ELSE period[1]

\* Only the year just before the current one.
previous_years_last_only(current_year) == (current_year - 1)..(current_year - 1)

\* A range that takes in the current year.
previous_years_inclusive(current_year) == START_YEAR..current_year

\* range(START_YEAR, current_year)
previous_years(current_year) == START_YEAR..(current_year - 1)

\* config['customers_overview']['query_parameters']['query']
PageQuery == <<"q">>

PageRequests == {Request(y, PageQuery, ensure_created(CustomerFields)) : y \in PageYears}

\* What render_time_filter() can return: the selected years in ascending
\* order, or the selected (year, quarter) pairs, by year and then by quarter.
SelectableYears == {2019, 2020}

RECURSIVE sorted(_)
sorted(S) ==
    IF S = {} THEN <<>>
    ELSE LET least == CHOOSE x \in S : \A z \in S : x <= z
         IN <<least>> \o sorted(S \ {least})

RECURSIVE pairs(_, _)
pairs(years, quarters) ==
    IF years = <<>> THEN <<>>
    ELSE [k \in 1..Len(quarters) |-> <<Head(years), quarters[k]>>] \o pairs(Tail(years), quarters)

QuarterChoices == {{}, {1}, {2}, {1, 2}, {3, 4}}

Selections ==
    {[filter_mode |-> "years", selected_periods |-> sorted(ys)] : ys \in SUBSET SelectableYears}
    \cup {[filter_mode |-> "quarters", selected_periods |-> pairs(sorted(ys), sorted(qs))] :
             ys \in SUBSET SelectableYears, qs \in QuarterChoices}

\* The locals of a render of the page, with the requests it has made and,
\* once an exception is raised, the exception and the frame it was raised on.
PageLocals ==
    [todo |-> {}, i |-> 1, year_data_cache |-> EmptyMap, dfs_by_period |-> EmptyMap,
     all_companies |-> EmptyMap, idx |-> 1, y |-> START_YEAR, previous_companies |-> {},
     reports |-> <<>>, requests |-> EmptyMap, markdown |-> EmptyMap, error |-> "",
     failed |-> NoFrame]

\* A logged-in session with an empty cache opens the page.
InitPage ==
    /\ env_username = <<"u">>
    /\ username = <<"u">>
    /\ password = <<"p">>
    /\ logged_in = TRUE
    /\ cookie_jar = "cookies"
    /\ session_attrs = {}
    /\ data_cache = EmptyMap
    /\ cache_timestamps = EmptyMap
    /\ heap = EmptyMap
    /\ ret = NoObject
    /\ now = 0
    /\ upstream \in [PageRequests -> PageResponses]
    /\ \A y \in PageYears :
          upstream[Request(y, PageQuery, ensure_created(CustomerFields))] \in PageBodies(y)
    /\ call = Handled("main")
    /\ origin = EmptyMap
    /\ stale = {}
    /\ last_empty = EmptyMap
    /\ arg \in Selections
    /\ res = PageLocals
    /\ pc = "start"

pageFixed == <<sessionVars, now, upstream, arg>>

cacheState == <<cacheVars, heap, ret, call, historyVars>>

\* The frame a fetch_data call has just returned.
Fetched == Frame(heap'[ret'])

\* The upstream requests of the render so far, with the one the call made.
Counted ==
    (call'.request :> (IF call'.request \in DOMAIN res.requests
                       THEN res.requests[call'.request] ELSE 0) + call'.requests)
        @@ res.requests

PageFetch(year) == fetch_data_call(year, PageQuery, CustomerFields, TRUE)

\* filter_mode, selected_periods = render_time_filter(), and the branch taken
\* on them.
page_start ==
    /\ pc = "start"
    /\ IF arg.selected_periods = <<>>
       THEN pc' = "stopped" /\ res' = res
       ELSE /\ pc' = "fetch"
            /\ res' = [res EXCEPT !.todo =
                          IF arg.filter_mode = "quarters"
                          THEN {p[1] : p \in Range(arg.selected_periods)} ELSE {}]
    /\ UNCHANGED <<pageFixed, cacheState>>

\* One pass of the years-mode loop: fetch the year, keep a copy, count its
\* companies.
page_fetch_year ==
    /\ pc = "fetch"
    /\ arg.filter_mode = "years"
    /\ LET year == arg.selected_periods[res.i]
       IN /\ PageFetch(year)
          /\ LET df == Fetched
                 counted == process_companies_data(df)
                 kept == [res EXCEPT !.requests = Counted,
                                     !.dfs_by_period = (label("years", year) :> df) @@ @]
             IN IF counted.error # ""
                THEN /\ res' = [kept EXCEPT !.error = counted.error, !.failed = df]
                     /\ pc' = "error"
                ELSE /\ res' = [kept EXCEPT
                                   !.all_companies = (label("years", year) :> counted.companies) @@ @,
                                   !.i = @ + 1]
                     /\ pc' = IF res.i = Len(arg.selected_periods) THEN "slider" ELSE "fetch"
    /\ UNCHANGED pageFixed

\* One pass of the loop over years_needed, a set: fetch the year and convert
\* its Created column in place.
page_fetch_quarter_year ==
    /\ pc = "fetch"
    /\ arg.filter_mode = "quarters"
    /\ \E year \in res.todo :
          /\ PageFetch(year)
          /\ LET df == Fetched
                 df2 == IF ~empty(df.rows) /\ Created \in df.columns
                        THEN frame_converted(df) ELSE df
             IN res' = [res EXCEPT !.requests = Counted,
                                   !.year_data_cache = (year :> df2) @@ @,
                                   !.todo = @ \ {year}]
          /\ pc' = IF res.todo = {year} THEN "derive" ELSE "fetch"
    /\ UNCHANGED pageFixed

\* The loop over the selected quarters: each quarter's frame and companies
\* from the year's frame, up to the first error.
RECURSIVE derive_quarters(_, _)
derive_quarters(periods, locals) ==
    IF periods = <<>> \/ locals.error # "" THEN locals
    ELSE LET year == Head(periods)[1]
             quarter == Head(periods)[2]
             lbl == get_quarter_label(year, quarter)
             df == IF year \in DOMAIN locals.year_data_cache
                   THEN locals.year_data_cache[year] ELSE NoFrame
         IN IF ~empty(df.rows) /\ Created \in df.columns
            THEN LET df_quarter == frame_quarter(df, year, quarter)
                     counted == process_companies_data(df_quarter)
                     kept == [locals EXCEPT !.dfs_by_period = (lbl :> df_quarter) @@ @]
                 IN derive_quarters(Tail(periods),
                        IF counted.error # ""
                        THEN [kept EXCEPT !.error = counted.error, !.failed = df_quarter]
                        ELSE [kept EXCEPT !.all_companies = (lbl :> counted.companies) @@ @])
            ELSE derive_quarters(Tail(periods),
                     [locals EXCEPT !.dfs_by_period = (lbl :> NoFrame) @@ @,
                                    !.all_companies = (lbl :> EmptyMap) @@ @])

page_derive_quarters ==
    /\ pc = "derive"
    /\ res' = derive_quarters(arg.selected_periods, res)
    /\ pc' = IF res'.error # "" THEN "error" ELSE "slider"
    /\ UNCHANGED <<pageFixed, cacheState>>

\* if not all_companies: st.stop(); otherwise the display loop begins.
page_slider ==
    /\ pc = "slider"
    /\ pc' = IF DOMAIN res.all_companies = {} THEN "stopped" ELSE "previous_years"
    /\ res' = [res EXCEPT !.idx = 1, !.y = START_YEAR, !.previous_companies = {}]
    /\ UNCHANGED <<pageFixed, cacheState>>

\* The period the display loop is at.
current_struct == arg.selected_periods[res.idx]

\* fetch_all_previous_companies, one pass of its loop over the years before:
\* the companies of a year that has tickets are added.
page_previous_year ==
    /\ pc = "previous_years"
    /\ res.y \in previous_years(year_of(arg.filter_mode, current_struct))
    /\ PageFetch(res.y)
    /\ LET df == Fetched
           counted == IF ~empty(df.rows) THEN process_companies_data(df)
                      ELSE [error |-> "", companies |-> EmptyMap]
           kept == [res EXCEPT !.requests = Counted]
       IN IF counted.error # ""
          THEN /\ res' = [kept EXCEPT !.error = counted.error, !.failed = df]
               /\ pc' = "error"
          ELSE /\ res' = [kept EXCEPT !.previous_companies = @ \cup DOMAIN counted.companies,
                                      !.y = @ + 1]
               /\ pc' = "previous_years"
    /\ UNCHANGED pageFixed

\* The loop over the years before is over.
page_previous_years_done ==
    /\ pc = "previous_years"
    /\ res.y \notin previous_years(year_of(arg.filter_mode, current_struct))
    /\ pc' = IF arg.filter_mode = "quarters" /\ current_struct[2] > 1
             THEN "previous_quarters" ELSE "report"
    /\ UNCHANGED <<res, pageFixed, cacheState>>

\* fetch_all_previous_companies, quarters mode: the companies of the months
\* of the current year before the quarter's first month.
page_previous_quarters ==
    /\ pc = "previous_quarters"
    /\ PageFetch(current_struct[1])
    /\ LET df == Fetched
           kept == [res EXCEPT !.requests = Counted]
       IN IF ~empty(df.rows) /\ Created \in df.columns
          THEN LET df2 == IF ~is_datetime64_any_dtype(df.rows) THEN frame_converted(df) ELSE df
                   start_month_current == (current_struct[2] - 1) * 3 + 1
                   df_prev == [df2 EXCEPT !.rows = before_month(@, start_month_current)]
                   counted == process_companies_data(df_prev)
               IN IF counted.error # ""
                  THEN /\ res' = [kept EXCEPT !.error = counted.error, !.failed = df_prev]
                       /\ pc' = "error"
                  ELSE /\ res' = [kept EXCEPT
                                     !.previous_companies = @ \cup DOMAIN counted.companies]
                       /\ pc' = "report"
          ELSE /\ res' = kept
               /\ pc' = "report"
    /\ UNCHANGED pageFixed

\* The period's figures: its customers, and as new those of them that are
\* not among the previous companies.
page_report ==
    /\ pc = "report"
    /\ LET lbl == label(arg.filter_mode, current_struct)
           companies == IF lbl \in DOMAIN res.all_companies
                        THEN res.all_companies[lbl] ELSE EmptyMap
           new_companies == DOMAIN companies \ res.previous_companies
       IN res' = [res EXCEPT
                     !.reports = Append(@, [period |-> current_struct,
                                            customers |-> Cardinality(DOMAIN companies),
                                            new_companies |-> new_companies]),
                     !.idx = @ + 1, !.y = START_YEAR, !.previous_companies = {}]
    /\ pc' = IF res.idx = Len(arg.selected_periods) THEN "markdown" ELSE "previous_years"
    /\ UNCHANGED <<pageFixed, cacheState>>

\* generate_markdown_report: what it writes under each period's heading.
page_markdown ==
    /\ pc = "markdown"
    /\ res' = [res EXCEPT !.markdown =
                  [lbl \in DOMAIN res.dfs_by_period |->
                      IF empty(res.dfs_by_period[lbl].rows) THEN "No data for this period."
                      ELSE IF CompanyField \notin res.dfs_by_period[lbl].columns
                           THEN "Company field not found"
                      ELSE "companies"]]
    /\ pc' = "done"
    /\ UNCHANGED <<pageFixed, cacheState>>

NextPage ==
    \/ page_start
    \/ page_fetch_year
    \/ page_fetch_quarter_year
    \/ page_derive_quarters
    \/ page_slider
    \/ page_previous_year
    \/ page_previous_years_done
    \/ page_previous_quarters
    \/ page_report
    \/ page_markdown

SpecPage == InitPage /\ [][NextPage]_vars

-----------------------------------------------------------------------------
(* Claims about a render of the customer overview, under SpecPage *)

\* The table the ticket system answers the page's request for a year with.
YearTable(year) ==
    parse_response(upstream[Request(year, PageQuery, ensure_created(CustomerFields))])

\* The companies named in the rows of a table.
Companies(df) == {df[i][CompanyField] : i \in {j \in 1..Len(df) : CompanyField \in DOMAIN df[j]}}

YearCompanies(year) == Companies(YearTable(year))

QuarterCompanies(year, quarter) ==
    Companies(RowsIn(YearTable(year), QuarterFrom(year, quarter), QuarterUntil(year, quarter)))

\* The companies of every period strictly before a period: the years from
\* 2018 up to the year before and, for a quarter, the quarters of its year
\* before it.
CompaniesBefore(filter_mode, period) ==
    LET year == year_of(filter_mode, period)
    IN UNION {YearCompanies(y) : y \in 2018..(year - 1)}
       \cup (IF filter_mode = "quarters"
             THEN UNION {QuarterCompanies(year, q) : q \in 1..(period[2] - 1)}
             ELSE {})

CompaniesOf(filter_mode, period) ==
    IF filter_mode = "years" THEN YearCompanies(period)
    ELSE QuarterCompanies(period[1], period[2])

\* C13: for every period the page has reported on, the new customers
\* reported are exactly the companies of the period that are not companies of
\* any period strictly before it.
C13_NewCustomersAreFirstSeen ==
    pc \in {"previous_years", "previous_quarters", "report", "markdown", "done", "error"} =>
        \A k \in 1..Len(res.reports) :
            res.reports[k].new_companies =
                CompaniesOf(arg.filter_mode, res.reports[k].period)
                    \ CompaniesBefore(arg.filter_mode, res.reports[k].period)

\* Companies A and B in 2019 and B and C in 2020: the new customers reported
\* for 2020 are C alone.
C13_Witness ==
    /\ pc = "done"
    /\ arg.filter_mode = "years"
    /\ YearCompanies(2019) = {<<"A">>, <<"B">>}
    /\ YearCompanies(2020) = {<<"B">>, <<"C">>}
    /\ \E k \in 1..Len(res.reports) :
          /\ res.reports[k].period = 2020
          /\ res.reports[k].new_companies = {<<"C">>}

\* C16: within one render of the page, at most one upstream request is
\* issued per distinct (year, query, fields).
C16_OneRequestPerYear ==
    \A r \in DOMAIN res.requests : res.requests[r] <= 1

\* Only a request the ticket system answers with no ticket is issued more
\* than once in a render.
RepeatedRequestsAreEmpty ==
    \A r \in DOMAIN res.requests : res.requests[r] > 1 => empty(parse_response(upstream[r]))

\* C17: no aggregator of the page raises an error on a table that has
\* tickets and lacks the company column.
C17_MissingColumnFailsSoft ==
    ~(/\ pc = "error"
      /\ ~empty(res.failed.rows)
      /\ CompanyField \notin res.failed.columns)

\* C18: a fetch the ticket system answers with no ticket returns an empty
\* table, and no aggregator of the page raises an error on an empty table.
C18_EmptyResultIsNoError ==
    /\ (call.op = "fetch_data" /\ call.served = "upstream"
            /\ empty(parse_response(upstream[call.request])))
           => empty(heap[ret])
    /\ ~(pc = "error" /\ empty(res.failed.rows))

-----------------------------------------------------------------------------
(* Response times: sections/response_time.py *)

RESPONSE_CATEGORIES ==
    <<"Within first hour", "Within first day", "Within first 2 days", "Within first week",
      "More than a week", "Not set">>

HOURS_IN_A_DAY == 24
HOURS_IN_A_WEEK == 7 * HOURS_IN_A_DAY

\* Hours are kept as whole seconds: <<n>> is n / 3600 hours, and <<>> NaN.
NaN == <<>>
SecondsPerHour == 60 * 60

\* The number of the day of a timestamp (0 is 2000-01-01), t.date()
date(t) == t[1] \div SecondsPerDay

\* date.weekday(): Monday is 0; 2000-01-01 was a Saturday
weekday(day) == (day + 5) % 7

day_number(y, m, d) == Timestamp(y, m, d, 0, 0, 0)[1] \div SecondsPerDay

\* holidays.Italy(years=years): the national holidays of fixed date, and
\* Easter Sunday and Monday
Italy(years) ==
    {day_number(y, md[1], md[2]) :
        y \in years,
        md \in {<<1, 1>>, <<1, 6>>, <<4, 25>>, <<5, 1>>, <<6, 2>>, <<8, 15>>, <<11, 1>>,
                <<12, 8>>, <<12, 25>>, <<12, 26>>}}
    \cup (IF 2023 \in years THEN {day_number(2023, 4, 9), day_number(2023, 4, 10)} ELSE {})
    \cup (IF 2024 \in years THEN {day_number(2024, 3, 31), day_number(2024, 4, 1)} ELSE {})

\* The year of a timestamp, t.year
timestamp_year(t) == CHOOSE y \in 2000..2030 : day_number(y, 1, 1) <= date(t) /\ date(t) < day_number(y, 1, 1) + (IF is_leap(y) THEN 366 ELSE 365)

\* A test that takes Saturday for a working day.
is_business_day_sat(day, italian_holidays) == weekday(day) < 6 /\ day \notin italian_holidays

\* day.weekday() < 5 and day not in italian_holidays
is_business_day(day, italian_holidays) == weekday(day) < 5 /\ day \notin italian_holidays

\* The loop over the full days between: the seconds of those that are
\* business days.
RECURSIVE full_days(_, _, _)
full_days(day, last_day, italian_holidays) ==
    IF ~(day < last_day) THEN 0
    ELSE (IF is_business_day(day, italian_holidays) THEN SecondsPerDay ELSE 0)
             + full_days(day + 1, last_day, italian_holidays)

\* compute_business_hours(start, end)
compute_business_hours(start, end) ==
    IF start = NoTime \/ end = NoTime THEN NaN
    ELSE IF start[1] >= end[1] THEN <<0>>
    ELSE LET italian_holidays == Italy(timestamp_year(start)..timestamp_year(end))
             first_day == date(start)
             last_day == date(end)
         IN IF first_day = last_day
            THEN (IF is_business_day(first_day, italian_holidays)
                  THEN <<end[1] - start[1]>> ELSE <<0>>)
            ELSE <<(IF is_business_day(first_day, italian_holidays)
                    THEN (first_day + 1) * SecondsPerDay - start[1] ELSE 0)
                   + (IF is_business_day(last_day, italian_holidays)
                      THEN end[1] - last_day * SecondsPerDay ELSE 0)
                   + full_days(first_day + 1, last_day, italian_holidays)>>

\* Thresholds that leave the boundary value to the next category.
categorize_time_strict(hours) ==
    IF hours = NaN THEN "Not set"
    ELSE IF hours[1] < 1 * SecondsPerHour THEN "Within first hour"
    ELSE IF hours[1] < HOURS_IN_A_DAY * SecondsPerHour THEN "Within first day"
    ELSE IF hours[1] < 2 * HOURS_IN_A_DAY * SecondsPerHour THEN "Within first 2 days"
    ELSE IF hours[1] < HOURS_IN_A_WEEK * SecondsPerHour THEN "Within first week"
    ELSE "More than a week"

\* categorize_time(hours)
categorize_time(hours) ==
    IF hours = NaN THEN "Not set"
    ELSE IF hours[1] <= 1 * SecondsPerHour THEN "Within first hour"
    ELSE IF hours[1] <= HOURS_IN_A_DAY * SecondsPerHour THEN "Within first day"
    ELSE IF hours[1] <= 2 * HOURS_IN_A_DAY * SecondsPerHour THEN "Within first 2 days"
    ELSE IF hours[1] <= HOURS_IN_A_WEEK * SecondsPerHour THEN "Within first week"
    ELSE "More than a week"

\* categorize_response_times(df) on the Created and Started timestamps of
\* each row: its ResponseTime and ResponseCategory columns.
categorize_response_times(df) ==
    [i \in 1..Len(df) |->
        LET hours == compute_business_hours(df[i].Created, df[i].Started)
        IN [ResponseTime |-> hours, ResponseCategory |-> categorize_time(hours)]]

\* df['ResponseCategory'].value_counts().reindex(RESPONSE_CATEGORIES, fill_value=0)
value_counts(df) ==
    [c \in Range(RESPONSE_CATEGORIES) |->
        Cardinality({i \in 1..Len(df) : df[i].ResponseCategory = c})]

\* The most tickets of a table of several tickets.
MaxTickets == 2

\* Days around Easter 2023 (Friday to Tuesday), of two weeks of June 2023
\* without a holiday, and around the new year.
ResponseDays ==
    {day_number(2023, 4, d) : d \in 7..11}
    \cup {day_number(2023, 6, d) : d \in {5, 6, 7, 14}}
    \cup {day_number(2023, 12, 31), day_number(2024, 1, 1), day_number(2024, 1, 2)}

\* Times of day, in seconds: midnight, one second and one hour past it and one
\* second more, noon, and the last second.
ResponseTimes == {0, 1, SecondsPerHour, SecondsPerHour + 1, 12 * SecondsPerHour, SecondsPerDay - 1}

Instants == {<<d * SecondsPerDay + s>> : d \in ResponseDays, s \in ResponseTimes}

\* Tickets created on Monday 5 June 2023 at midnight and started at, or one
\* second past, each threshold of business hours; and tickets never started.
ThresholdTickets ==
    {[Created |-> Timestamp(2023, 6, 5, 0, 0, 0), Started |-> e] :
        e \in {Timestamp(2023, 6, 5, 1, 0, 0), Timestamp(2023, 6, 5, 1, 0, 1),
               Timestamp(2023, 6, 6, 0, 0, 0), Timestamp(2023, 6, 6, 0, 0, 1),
               Timestamp(2023, 6, 7, 0, 0, 0), Timestamp(2023, 6, 7, 0, 0, 1),
               Timestamp(2023, 6, 14, 0, 0, 0), Timestamp(2023, 6, 14, 0, 0, 1),
               NoTime}}

\* One ticket of any two instants (either of which can be missing), or
\* several tickets at the thresholds.
InitResponse ==
    /\ Quiet
    /\ \/ \E c \in Instants \cup {NoTime}, e \in Instants \cup {NoTime} :
             arg = <<[Created |-> c, Started |-> e]>>
       \/ arg \in UNION {[1..n -> ThresholdTickets] : n \in 0..MaxTickets}
    /\ res = <<>>
    /\ pc = "in"

\* fetch_and_process_data's categorize_response_times(df), and the counts the
\* page takes of it.
response_times ==
    /\ pc = "in"
    /\ res' = [df |-> categorize_response_times(arg),
               counts |-> value_counts(categorize_response_times(arg))]
    /\ pc' = "out"
    /\ UNCHANGED <<restVars, arg>>

NextResponse == response_times

SpecResponse == InitResponse /\ [][NextResponse]_vars

\* The sum of the counts of the categories.
RECURSIVE SumCounts(_, _)
SumCounts(counts, categories) ==
    IF categories = <<>> THEN 0
    ELSE counts[Head(categories)] + SumCounts(counts, Tail(categories))

\* The categories an amount of hours falls in, by the thresholds.
CategoriesOf(hours) ==
    {c \in Range(RESPONSE_CATEGORIES) :
        \/ c = "Not set" /\ hours = NaN
        \/ /\ hours # NaN
           /\ \/ c = "Within first hour" /\ hours[1] <= 3600
              \/ c = "Within first day" /\ hours[1] > 3600 /\ hours[1] <= 24 * 3600
              \/ c = "Within first 2 days" /\ hours[1] > 24 * 3600 /\ hours[1] <= 48 * 3600
              \/ c = "Within first week" /\ hours[1] > 48 * 3600 /\ hours[1] <= 168 * 3600
              \/ c = "More than a week" /\ hours[1] > 168 * 3600}

\* C14: every ticket gets exactly one of the six categories, the one its
\* hours fall in by the thresholds 1, 24, 48 and 168 hours (each inclusive);
\* a ticket with Created or Started missing gets "Not set"; and the six
\* counts of a table sum to its number of tickets.
C14_OneCategoryPerTicket ==
    pc = "out" =>
        /\ Len(res.df) = Len(arg)
        /\ \A i \in 1..Len(arg) :
              /\ CategoriesOf(res.df[i].ResponseTime) = {res.df[i].ResponseCategory}
              /\ (arg[i].Created = NoTime \/ arg[i].Started = NoTime)
                     => res.df[i].ResponseCategory = "Not set"
        /\ SumCounts(res.counts, RESPONSE_CATEGORIES) = Len(arg)

\* A ticket started exactly 24 business hours after its creation is within
\* the first day, and one started a second later within the first 2 days.
C14_Witness ==
    /\ pc = "out"
    /\ Len(arg) = 2
    /\ res.df[1].ResponseTime = <<24 * 3600>>
    /\ res.df[1].ResponseCategory = "Within first day"
    /\ res.df[2].ResponseTime = <<24 * 3600 + 1>>
    /\ res.df[2].ResponseCategory = "Within first 2 days"
    /\ res.counts["Within first day"] = 1

Least(a, b) == IF a <= b THEN a ELSE b
Greatest(a, b) == IF a >= b THEN a ELSE b

\* The holidays of the years of the instants.
Holidays == Italy(2023..2024)

\* A day that is neither a Saturday, a Sunday nor a holiday.
BusinessDay(day) == weekday(day) \notin {5, 6} /\ day \notin Holidays

\* The seconds of [from, until) that fall on business days, day by day from
\* `day` on.
RECURSIVE BusinessSeconds(_, _, _)
BusinessSeconds(day, from, until) ==
    IF day * SecondsPerDay >= until THEN 0
    ELSE (IF BusinessDay(day)
          THEN Least(until, (day + 1) * SecondsPerDay) - Greatest(from, day * SecondsPerDay)
          ELSE 0)
             + BusinessSeconds(day + 1, from, until)

\* C15: for start < end, compute_business_hours(start, end) is the time of
\* [start, end) that falls on days that are neither weekend days nor
\* holidays; it is 0 when both are on the same non-business day, never
\* negative and never more than the time elapsed.
C15_BusinessHoursOfInterval ==
    pc = "out" =>
        \A i \in 1..Len(arg) :
            LET start == arg[i].Created
                end == arg[i].Started
                hours == res.df[i].ResponseTime
            IN (start # NoTime /\ end # NoTime /\ start[1] < end[1]) =>
                   /\ hours = <<BusinessSeconds(date(start), start[1], end[1])>>
                   /\ hours[1] >= 0
                   /\ hours[1] <= end[1] - start[1]
                   /\ (date(start) = date(end) /\ ~BusinessDay(date(start))) => hours = <<0>>

\* From Friday noon before Easter 2023 to Tuesday noon after it: the weekend
\* and Easter Monday do not count, which leaves 24 of the 96 hours.
C15_Witness ==
    /\ pc = "out"
    /\ Len(arg) = 1
    /\ arg[1].Created = Timestamp(2023, 4, 7, 12, 0, 0)
    /\ arg[1].Started = Timestamp(2023, 4, 11, 12, 0, 0)
    /\ res.df[1].ResponseTime = <<24 * 3600>>

-----------------------------------------------------------------------------
(* The pages' conversions of the Created column *)

\* The rows of a table whose Created is a text that is not a date.
Unparseable(df) ==
    {i \in 1..Len(df) : Created \in DOMAIN df[i] /\ ~WellFormed(df[i][Created])}

\* df['Created'] = pd.to_datetime(df['Created'], format=...) with the default
\* errors='raise': one text that is not in the format raises ValueError.
to_datetime_raise(df) ==
    IF Unparseable(df) # {} THEN [error |-> "ValueError", df |-> df]
    ELSE [error |-> "", df |-> assign_created(df)]

\* help_overview.py, load_data_years and load_data_quarters: the conversion
\* of a year's table that is not empty.
load_data_years(df) ==
    IF ~empty(df) THEN to_datetime_raise(df) ELSE [error |-> "", df |-> df]

\* idm_tickets.py, process_year_data: df['Created'].dt.year.astype(int), which
\* raises on the missing year of a NaT.
process_year_data(df) ==
    IF \E i \in 1..Len(df) : df[i][Created] = NaT
    THEN [error |-> "ValueError", df |-> df]
    ELSE [error |-> "", df |-> df]

\* idm_tickets.py, fetch_data_for_year and the years-mode loop on its result.
fetch_and_process_data_years(df) ==
    LET df2 == IF ~empty(df) /\ Created \in columns(df) THEN assign_created(df) ELSE df
    IN IF ~empty(df2) THEN process_year_data(df2) ELSE [error |-> "", df |-> df2]

\* customer_overview.py, the quarters-mode loop: the conversion with
\* errors='coerce'.
year_data(df) ==
    [error |-> "",
     df |-> IF ~empty(df) /\ Created \in columns(df) THEN assign_created(df) ELSE df]

CreatedPages == {"help_overview", "idm_tickets", "customer_overview"}

\* A page is handed a year's table that has a Created column.
InitCreated ==
    /\ Quiet
    /\ \E page \in CreatedPages, t \in Tables :
          /\ Created \in columns(t)
          /\ arg = [page |-> page, df |-> t]
    /\ res = <<>>
    /\ pc = "in"

\* The page converts the Created column of the table.
load_created ==
    /\ pc = "in"
    /\ res' = CASE arg.page = "help_overview" -> load_data_years(arg.df)
                [] arg.page = "idm_tickets" -> fetch_and_process_data_years(arg.df)
                [] arg.page = "customer_overview" -> year_data(arg.df)
    /\ pc' = "out"
    /\ UNCHANGED <<restVars, arg>>

NextCreated == load_created

SpecCreated == InitCreated /\ [][NextCreated]_vars

\* C19: on every page, a Created text that is not a date becomes a missing
\* value, the other values are converted, and no error is raised.
C19_UnparseableIsOnlyMissing ==
    pc = "out" =>
        /\ res.error = ""
        /\ Len(res.df) = Len(arg.df)
        /\ \A i \in 1..Len(arg.df) :
              res.df[i][Created] =
                  (IF i \in Unparseable(arg.df) \/ Created \notin DOMAIN arg.df[i] THEN NaT
                   ELSE to_datetime(arg.df[i][Created]))

\* Converting with errors='coerce' and using no missing value as a number,
\* as the customer overview does, raises nothing.
CoerceRaisesNothing ==
    (pc = "out" /\ arg.page = "customer_overview") => res.error = ""

-----------------------------------------------------------------------------
(* Domain standardization: sections/domains.py *)

\* A missing cell (NaN), which is no text.
Missing == <<"NaN">>

UnknownDomain == <<"U", "n", "k", "n", "o", "w", "n", " ", "D", "o", "m", "a", "i", "n">>

\* The printable ASCII characters but the quotes and the backslash, in the
\* order of their code points.
CodePoints ==
    <<
      " ", "!", "#", "$", "%", "&", "'", "(", ")", "*", "+", ",", "-", ".", "/",
      "0", "1", "2", "3", "4", "5", "6", "7", "8", "9", ":", ";", "<", "=", ">", "?",
      "@", "A", "B", "C", "D", "E", "F", "G", "H", "I", "J", "K", "L", "M", "N", "O",
      "P", "Q", "R", "S", "T", "U", "V", "W", "X", "Y", "Z", "[", "]", "^", "_",
      "a", "b", "c", "d", "e", "f", "g", "h", "i", "j", "k", "l", "m", "n", "o",
      "p", "q", "r", "s", "t", "u", "v", "w", "x", "y", "z", "{", "|", "}", "~"
    >>

ord(c) == CHOOSE n \in 1..Len(CodePoints) : CodePoints[n] = c

\* a <= b for two str
RECURSIVE str_le(_, _)
str_le(a, b) ==
    IF a = <<>> THEN TRUE
    ELSE IF b = <<>> THEN FALSE
    ELSE IF Head(a) = Head(b) THEN str_le(Tail(a), Tail(b))
    ELSE ord(Head(a)) < ord(Head(b))

\* list.sort(): the parts in ascending order
RECURSIVE sort(_)
sort(parts) ==
    IF parts = <<>> THEN <<>>
    ELSE LET least == CHOOSE i \in 1..Len(parts) : \A j \in 1..Len(parts) : str_le(parts[i], parts[j])
         IN <<parts[least]>>
                \o sort(SubSeq(parts, 1, least - 1) \o SubSeq(parts, least + 1, Len(parts)))

\* sep.join(parts)
RECURSIVE join(_, _)
join(sep, parts) ==
    IF parts = <<>> THEN <<>>
    ELSE IF Len(parts) = 1 THEN parts[1]
    ELSE parts[1] \o sep \o join(sep, Tail(parts))

\* The parts joined again in the order they came in.
standardize_domain_unsorted(domain) ==
    IF domain = Missing THEN UnknownDomain
    ELSE join(Comma, split(domain, Comma))

\* standardize_domain(domain)
standardize_domain(domain) ==
    IF domain = Missing THEN UnknownDomain
    ELSE join(Comma, sort(split(domain, Comma)))

\* The most pieces a domain text is made of.
MaxDomainPieces == 4

DomainPieces == {<<"A">>, <<"B">>, <<"a">>, <<" ">>, Comma}

DomainTexts == {Str(q) : q \in SeqsUpTo(DomainPieces, MaxDomainPieces)}

\* The orders the parts of a list can be put in.
Orders(parts) ==
    {[i \in 1..Len(parts) |-> parts[f[i]]] :
        f \in {g \in [1..Len(parts) -> 1..Len(parts)] : \A i, j \in 1..Len(parts) : g[i] = g[j] => i = j}}

\* A domain cell, missing or a text, and the same list of domains in some
\* order.
InitDomain ==
    /\ Quiet
    /\ \/ arg = [domain |-> Missing, permuted |-> Missing]
       \/ \E d \in DomainTexts : \E q \in Orders(split(d, Comma)) :
             arg = [domain |-> d, permuted |-> join(Comma, q)]
    /\ res = <<>>
    /\ pc = "in"

\* .apply(standardize_domain) on the cell, on its result, and on the cell
\* with its list in the other order.
standardize_domains ==
    /\ pc = "in"
    /\ res' = [first |-> standardize_domain(arg.domain),
               again |-> standardize_domain(standardize_domain(arg.domain)),
               other |-> standardize_domain(arg.permuted)]
    /\ pc' = "out"
    /\ UNCHANGED <<restVars, arg>>

NextDomain == standardize_domains

SpecDomain == InitDomain /\ [][NextDomain]_vars

\* C20: standardizing a standardized value changes nothing; a list of
\* domains and every permutation of it standardize to the same value; and a
\* missing domain gives "Unknown Domain".
C20_StandardizeIsCanonical ==
    pc = "out" =>
        /\ res.again = res.first
        /\ res.other = res.first
        /\ arg.domain = Missing => res.first = UnknownDomain

\* Two orders of a list of three domains, neither of them the standardized
\* one.
C20_Witness ==
    /\ pc = "out"
    /\ arg.domain # Missing
    /\ Len(split(arg.domain, Comma)) = 3
    /\ arg.domain # arg.permuted
    /\ res.first \notin {arg.domain, arg.permuted}
    /\ res.other = res.first

-----------------------------------------------------------------------------
(* The domains page: sections/domains.py, the block after the fetch *)

QueueField == <<"Q", "u", "e", "u", "e">>

DomainField ==
    <<"C", "F", ".", "{", "O", "p", "e", "n", "D", "a", "t", "a", "H", "u", "b", " ",
      "D", "o", "m", "a", "i", "n", "}">>

StandardizedDomain ==
    <<"S", "t", "a", "n", "d", "a", "r", "d", "i", "z", "e", "d", "_",
      "D", "o", "m", "a", "i", "n">>

IDM == <<"I", "D", "M">>

Tourism == <<"T", "o", "u", "r", "i", "s", "m">>

\* df[column] at row i: a record without the key holds NaN there.
cell(df, i, column) == IF column \in DOMAIN df[i] THEN df[i][column] ELSE Missing

\* .astype(str) on a cell: NaN becomes the text 'nan'.
astype_str(v) == IF v = Missing THEN <<"n", "a", "n">> ELSE v

\* df[column] = values, row by row.
assign(df, column, values) ==
    [i \in 1..Len(df) |->
        [k \in DOMAIN df[i] \cup {column} |-> IF k = column THEN values[i] ELSE df[i][k]]]

\* all_data['CF.{OpenDataHub Domain}'].apply(standardize_domain)
apply_standardize_domain(df) ==
    [i \in 1..Len(df) |-> standardize_domain(cell(df, i, DomainField))]

\* The mask that takes a queue for IDM whatever its letter case.
idm_mask_any_case(df) ==
    [i \in 1..Len(df) |->
        astype_str(cell(df, i, QueueField)) \in {IDM, <<"i", "d", "m">>}]

\* idm_mask = all_data['Queue'].astype(str).fillna('') == 'IDM'
idm_mask(df) == [i \in 1..Len(df) |-> astype_str(cell(df, i, QueueField)) = IDM]

\* all_data.loc[idm_mask, 'Standardized_Domain'] = 'Tourism'
override(values, mask) ==
    [i \in DOMAIN values |-> IF mask[i] THEN Tourism ELSE values[i]]

\* data['Standardized_Domain'].value_counts(): the rows of every value.
domain_value_counts(df) ==
    [d \in {df[i][StandardizedDomain] : i \in 1..Len(df)} |->
        Cardinality({i \in 1..Len(df) : df[i][StandardizedDomain] = d})]

\* The block "if not all_data.empty: ... else: ...": the table with its
\* Standardized_Domain column and the counts of the total chart.  Reading a
\* column the table does not have raises KeyError.
standardize_block(all_data) ==
    IF empty(all_data)
    THEN [error |-> "", warning |-> FALSE, df |-> all_data, counts |-> <<>>,
          shown |-> "No data available"]
    ELSE IF DomainField \notin columns(all_data)
    THEN [error |-> "KeyError", warning |-> QueueField \notin columns(all_data),
          df |-> all_data, counts |-> <<>>, shown |-> ""]
    ELSE LET standardized == apply_standardize_domain(all_data)
             values == IF QueueField \notin columns(all_data) THEN standardized
                       ELSE override(standardized, idm_mask(all_data))
             df == assign(all_data, StandardizedDomain, values)
         IN [error |-> "", warning |-> QueueField \notin columns(all_data),
             df |-> df, counts |-> domain_value_counts(df), shown |-> "charts"]

\* The most tickets of the table of a domains page.
MaxDomainRows == 2

\* The Queue and domain lines a ticket can have; <<>> for no line.
QueueTexts == {<<>>, IDM, <<"i", "d", "m">>}

RawDomains == {<<>>, <<"B", ",", "A">>, <<"A", ",", "B">>, Tourism}

DomainRow(id, queue, domain) ==
    LET keys == {Id} \cup (IF queue = <<>> THEN {} ELSE {QueueField})
                     \cup (IF domain = <<>> THEN {} ELSE {DomainField})
    IN [k \in keys |-> IF k = Id THEN str_int(id)
                       ELSE IF k = QueueField THEN queue ELSE domain]

DomainTables ==
    UNION {{[i \in 1..n |-> DomainRow(i, q[i], d[i])] :
                q \in [1..n -> QueueTexts], d \in [1..n -> RawDomains]} :
           n \in 0..MaxDomainRows}

\* The page has fetched the table of the selected periods.
InitDomainsPage ==
    /\ Quiet
    /\ arg \in DomainTables
    /\ res = <<>>
    /\ pc = "in"

domains_page ==
    /\ pc = "in"
    /\ res' = standardize_block(arg)
    /\ pc' = "out"
    /\ UNCHANGED <<restVars, arg>>

NextDomainsPage == domains_page

SpecDomainsPage == InitDomainsPage /\ [][NextDomainsPage]_vars

\* The standardized domain a ticket is to be counted under.
DomainOf(row) ==
    IF QueueField \in DOMAIN row /\ row[QueueField] = IDM THEN Tourism
    ELSE standardize_domain(IF DomainField \in DOMAIN row THEN row[DomainField] ELSE Missing)

\* C21: every ticket whose Queue is IDM is counted under Tourism whatever
\* its raw domain, a missing one included, and every other ticket under its
\* standardized raw domain.
C21_IdmIsTourism ==
    (pc = "out" /\ ~empty(arg)) =>
        /\ res.error = ""
        /\ Len(res.df) = Len(arg)
        /\ \A i \in 1..Len(arg) : res.df[i][StandardizedDomain] = DomainOf(arg[i])
        /\ \A d \in DOMAIN res.counts :
              res.counts[d] = Cardinality({i \in 1..Len(arg) : DomainOf(arg[i]) = d})

\* Where some ticket of the table has a domain line, the block raises
\* nothing and every ticket is counted as C21 says.
OverrideWhereDomainColumn ==
    (pc = "out" /\ DomainField \in columns(arg)) =>
        /\ res.error = ""
        /\ \A i \in 1..Len(arg) : res.df[i][StandardizedDomain] = DomainOf(arg[i])
        /\ DOMAIN res.counts = {DomainOf(arg[i]) : i \in 1..Len(arg)}
        /\ \A d \in DOMAIN res.counts :
              res.counts[d] = Cardinality({i \in 1..Len(arg) : DomainOf(arg[i]) = d})

-----------------------------------------------------------------------------
(* The requestors page: sections/requestors.py, apply_idm_logic *)

TypeOfRequestor ==
    <<"C", "F", ".", "{", "T", "y", "p", "e", " ", "o", "f", " ", "r", "e",
      "q", "u", "e", "s", "t", "o", "r", "}">>

RequestorUseCase ==
    <<"C", "F", ".", "{", "R", "e", "q", "u", "e", "s", "t", "o", "r", " ",
      "u", "s", "e", " ", "c", "a", "s", "e", "}">>

CompanyType ==
    <<"C", "F", ".", "{", "C", "o", "m", "p", "a", "n", "y", " ", "t", "y",
      "p", "e", "}">>

DataConsumer == <<"D", "a", "t", "a", " ", "c", "o", "n", "s", "u", "m", "e", "r">>

PubliclyHeld == <<"P", "u", "b", "l", "i", "c", "l", "y", " ", "h", "e", "l", "d">>

\* The value apply_idm_logic puts in each of the three fields.
IdmValues == (TypeOfRequestor :> IDM) @@ (RequestorUseCase :> DataConsumer)
                 @@ (CompanyType :> PubliclyHeld)

\* df.loc[mask, column] = v
loc_assign(df, mask, column, v) ==
    [i \in 1..Len(df) |->
        IF mask[i]
        THEN [k \in DOMAIN df[i] \cup {column} |-> IF k = column THEN v ELSE df[i][k]]
        ELSE df[i]]

\* if column in df.columns: df.loc[idm_mask, column] = v
assign_if_column(df, mask, column, v) ==
    IF column \in columns(df) THEN loc_assign(df, mask, column, v) ELSE df

\* apply_idm_logic(df)
apply_idm_logic(df) ==
    IF ~empty(df) /\ QueueField \in columns(df)
    THEN LET mask == idm_mask(df)
             df1 == assign_if_column(df, mask, TypeOfRequestor, IDM)
             df2 == assign_if_column(df1, mask, RequestorUseCase, DataConsumer)
         IN assign_if_column(df2, mask, CompanyType, PubliclyHeld)
    ELSE df

\* The most tickets of a period's table of the requestors page.
MaxRequestorRows == 2

\* The fetched value of a requestor field.
Fetched_x == <<"x">>

RequestorRow(queue, present) ==
    [k \in (IF queue = <<>> THEN {} ELSE {QueueField}) \cup present |->
        IF k = QueueField THEN queue ELSE Fetched_x]

RequestorTables ==
    UNION {[1..n -> {RequestorRow(q, present) :
                        q \in QueueTexts, present \in SUBSET DOMAIN IdmValues}] :
           n \in 0..MaxRequestorRows}

\* The page has fetched (or filtered) the table of a period.
InitRequestors ==
    /\ Quiet
    /\ arg \in RequestorTables
    /\ res = <<>>
    /\ pc = "in"

\* df = apply_idm_logic(df)
requestors_period ==
    /\ pc = "in"
    /\ res' = apply_idm_logic(arg)
    /\ pc' = "out"
    /\ UNCHANGED <<restVars, arg>>

NextRequestors == requestors_period

SpecRequestors == InitRequestors /\ [][NextRequestors]_vars

IsIdm(row) == QueueField \in DOMAIN row /\ row[QueueField] = IDM

\* C22 as stated: every ticket whose Queue is IDM has the three fixed values
\* after apply_idm_logic, whatever was fetched, and every other ticket keeps
\* its three fields.
C22_IdmOverridesRequestorFields ==
    pc = "out" =>
        /\ Len(res) = Len(arg)
        /\ \A i \in 1..Len(arg), f \in DOMAIN IdmValues :
              cell(res, i, f) = (IF IsIdm(arg[i]) THEN IdmValues[f] ELSE cell(arg, i, f))

\* C22 as amended: the override covers the fields that are columns of the
\* table; a field no ticket of the table carries stays absent, and nothing
\* else changes.
C22_IdmOverridesFetchedColumns ==
    pc = "out" =>
        /\ Len(res) = Len(arg)
        /\ columns(res) = columns(arg)
        /\ \A i \in 1..Len(arg) :
              /\ cell(res, i, QueueField) = cell(arg, i, QueueField)
              /\ \A f \in DOMAIN IdmValues :
                    cell(res, i, f) =
                        (IF IsIdm(arg[i]) /\ f \in columns(arg) THEN IdmValues[f]
                         ELSE cell(arg, i, f))

\* An IDM ticket whose fetched type is overridden and whose missing use case
\* is filled in, next to a ticket of queue 'idm' that keeps what it has.
C22_Witness ==
    /\ pc = "out"
    /\ Len(arg) = 2
    /\ IsIdm(arg[1]) /\ cell(arg, 1, TypeOfRequestor) = Fetched_x
    /\ cell(arg, 1, RequestorUseCase) = Missing
    /\ cell(arg, 2, QueueField) = <<"i", "d", "m">>
    /\ cell(arg, 2, RequestorUseCase) = Fetched_x
    /\ cell(res, 1, TypeOfRequestor) = IDM
    /\ cell(res, 1, RequestorUseCase) = DataConsumer
    /\ cell(res, 2, RequestorUseCase) = Fetched_x

-----------------------------------------------------------------------------
(* The Markdown exports: generate_markdown_report of customer_overview.py and
   of response_time.py, generate_domains_markdown_report of domains.py *)

starts_with(s, prefix) == Len(s) >= Len(prefix) /\ SubSeq(s, 1, Len(prefix)) = prefix

ends_with(s, suffix) ==
    Len(s) >= Len(suffix) /\ SubSeq(s, Len(s) - Len(suffix) + 1, Len(s)) = suffix

Slash == <<"/">>

\* str(ticket_id).split('/')[-1]
last_part(ticket_id) == LET parts == split(ticket_id, Slash) IN parts[Len(parts)]

\* get_ticket_url(ticket_id), with the session's tickets_base_url
get_ticket_url(base_url, ticket_id) ==
    IF base_url # <<>>
    THEN base_url \o <<"?", "i", "d", "=">> \o (IF contains(ticket_id, Slash) THEN last_part(ticket_id) ELSE ticket_id)
    ELSE ticket_id

\* format_ticket_link_markdown(ticket_id)
format_ticket_link_markdown(base_url, ticket_id) ==
    LET display_id == IF contains(ticket_id, Slash) THEN last_part(ticket_id) ELSE ticket_id
    IN <<"[">> \o display_id \o <<"]", "(">> \o get_ticket_url(base_url, ticket_id) \o <<")">>

\* The column a report groups the tickets of a period by.
ResponseCategory == <<"R", "e", "s", "p", "o", "n", "s", "e", "C", "a", "t", "e", "g", "o", "r", "y">>

\* The text of a response category.
CategoryText ==
    [c \in {RESPONSE_CATEGORIES[i] : i \in 1..Len(RESPONSE_CATEGORIES)} |->
        CASE c = "Within first hour" -> <<"W", "i", "t", "h", "i", "n", " ", "f", "i", "r", "s", "t", " ", "h", "o", "u", "r">>
          [] c = "Within first day" -> <<"W", "i", "t", "h", "i", "n", " ", "f", "i", "r", "s", "t", " ", "d", "a", "y">>
          [] c = "Within first 2 days" -> <<"W", "i", "t", "h", "i", "n", " ", "f", "i", "r", "s", "t", " ", "2", " ", "d", "a", "y", "s">>
          [] c = "Within first week" -> <<"W", "i", "t", "h", "i", "n", " ", "f", "i", "r", "s", "t", " ", "w", "e", "e", "k">>
          [] c = "More than a week" -> <<"M", "o", "r", "e", " ", "t", "h", "a", "n", " ", "a", " ", "w", "e", "e", "k">>
          [] c = "Not set" -> <<"N", "o", "t", " ", "s", "e", "t">>]

\* The rows of a table whose column has the value.
rows_where(df, column, v) ==
    SelectSeq(df, LAMBDA row : column \in DOMAIN row /\ row[column] = v)

\* The values of a column that are not missing, as a set.
unique(df, column) == {df[i][column] : i \in {j \in 1..Len(df) : column \in DOMAIN df[j]}}

\* sorted(values) for a set of str
sorted_str(S) ==
    sort(CHOOSE q \in [1..Cardinality(S) -> S] : \A v \in S : \E i \in DOMAIN q : q[i] = v)

\* The concatenation of a sequence of lists of lines.
RECURSIVE flatten(_)
flatten(lists) == IF lists = <<>> THEN <<>> ELSE Head(lists) \o flatten(Tail(lists))

\* The lines "- <link>" of the tickets of a group, as the customer overview
\* and the domains report write them.
ticket_links(base_url, group) ==
    [i \in 1..Len(group) |-> <<"-", " ">> \o format_ticket_link_markdown(base_url, cell(group, i, Id))]

\* "### <key> (<n> tickets)"
group_heading(key, n) == <<"#", "#", "#", " ">> \o key \o <<" ", "(">> \o str_int(n) \o <<" ", "t", "i", "c", "k", "e", "t", "s", ")">>

\* customer_overview.py, generate_markdown_report: the lines of one period.
customer_period_lines(base_url, period, df) ==
    <<<<"#", "#", " ">> \o period \o Newline>> \o
    (IF empty(df) THEN <<<<"N", "o", " ", "d", "a", "t", "a", " ", "f", "o", "r", " ", "t", "h", "i", "s", " ", "p", "e", "r", "i", "o", "d", ".">> \o Newline>>
     ELSE IF CompanyField \notin columns(df) THEN <<<<"C", "o", "m", "p", "a", "n", "y", " ", "f", "i", "e", "l", "d", " ", "n", "o", "t", " ", "f", "o", "u", "n", "d">> \o Newline>>
     ELSE flatten([k \in 1..Cardinality(unique(df, CompanyField)) |->
             LET company == sorted_str(unique(df, CompanyField))[k]
                 group == rows_where(df, CompanyField, company)
             IN <<group_heading(company, Len(group))>> \o
                (IF Id \in columns(df) THEN ticket_links(base_url, group)
                 ELSE <<<<"-", " ", "T", "i", "c", "k", "e", "t", " ", "I", "D", " ", "c", "o", "l", "u", "m", "n", " ", "n", "o", "t", " ", "f", "o", "u", "n", "d">>>>) \o
                <<<<>>>>]))

\* customer_overview.py, generate_markdown_report(dfs_by_period): the periods
\* in the order of str(period).
customer_markdown_report(base_url, dfs_by_period) ==
    LET periods == sorted_str(DOMAIN dfs_by_period)
    IN join(Newline,
            <<<<"#", " ", "C", "u", "s", "t", "o", "m", "e", "r", " ", "O", "v", "e", "r", "v", "i", "e", "w", " ", "R", "e", "p", "o", "r", "t">> \o Newline, <<"G", "e", "n", "e", "r", "a", "t", "e", "d", ":", " ">> \o Newline>> \o
            flatten([k \in 1..Len(periods) |->
                        customer_period_lines(base_url, periods[k], dfs_by_period[periods[k]])]))

\* domains.py, generate_domains_markdown_report: the lines of one period.
domains_period_lines(base_url, period, period_data) ==
    <<<<"#", "#", " ">> \o period \o Newline>> \o
    (IF empty(period_data) THEN <<<<"N", "o", " ", "d", "a", "t", "a", " ", "f", "o", "r", " ", "t", "h", "i", "s", " ", "p", "e", "r", "i", "o", "d", ".">> \o Newline>>
     ELSE <<<<"*", "*", "T", "o", "t", "a", "l", " ", "T", "i", "c", "k", "e", "t", "s", ":", "*", "*", " ">> \o str_int(Len(period_data)) \o Newline>> \o
          flatten([k \in 1..Cardinality(unique(period_data, StandardizedDomain)) |->
             LET domain == sorted_str(unique(period_data, StandardizedDomain))[k]
                 domain_df == rows_where(period_data, StandardizedDomain, domain)
             IN <<group_heading(domain, Len(domain_df))>> \o
                (IF Id \in columns(period_data) THEN ticket_links(base_url, domain_df)
                 ELSE <<>>) \o
                <<<<>>>>]) \o
          <<<<>>>>)

\* domains.py, generate_domains_markdown_report(all_data, period_col,
\* period_labels): the periods in the order of period_labels.
generate_domains_markdown_report(base_url, period_data, period_labels) ==
    join(Newline,
         <<<<"#", " ", "D", "o", "m", "a", "i", "n", "s", " ", "O", "v", "e", "r", "v", "i", "e", "w", " ", "R", "e", "p", "o", "r", "t">> \o Newline, <<"G", "e", "n", "e", "r", "a", "t", "e", "d", ":", " ">> \o Newline>> \o
         flatten([k \in 1..Len(period_labels) |->
                     domains_period_lines(base_url, period_labels[k],
                                          period_data[period_labels[k]])]))

\* response_time.py, generate_markdown_report: the lines of one year.
response_year_lines(year, df) ==
    <<<<"#", "#", " ">> \o year \o Newline>> \o
    flatten([k \in 1..Len(RESPONSE_CATEGORIES) |->
        <<<<"#", "#", "#", " ">> \o CategoryText[RESPONSE_CATEGORIES[k]]>> \o
        (IF Id \in columns(df)
         THEN LET ticket_ids == rows_where(df, ResponseCategory, CategoryText[RESPONSE_CATEGORIES[k]])
              IN IF ticket_ids # <<>>
                 THEN [i \in 1..Len(ticket_ids) |-> <<"-", " ">> \o cell(ticket_ids, i, Id)]
                 ELSE <<<<"-", " ", "N", "o", " ", "t", "i", "c", "k", "e", "t", "s">>>>
         ELSE <<<<"-", " ", "T", "i", "c", "k", "e", "t", " ", "I", "D", " ", "c", "o", "l", "u", "m", "n", " ", "n", "o", "t", " ", "f", "o", "u", "n", "d">>>>) \o
        <<<<>>>>])

\* response_time.py, generate_markdown_report(dfs_by_year): the years in
\* ascending order.
response_markdown_report(dfs_by_year) ==
    LET years == sorted_str(DOMAIN dfs_by_year)
    IN join(Newline,
            flatten([k \in 1..Len(years) |-> response_year_lines(years[k], dfs_by_year[years[k]])]))

\* The most tickets of a period's table in a report.
MaxReportRows == 2

Reports == {"customer_overview", "domains", "response_time"}

\* The column a report groups by.
GroupColumn(report) ==
    CASE report = "customer_overview" -> CompanyField
      [] report = "domains" -> StandardizedDomain
      [] report = "response_time" -> ResponseCategory

\* The group values of a ticket; Missing for a ticket without a company.
GroupValues(report) ==
    CASE report = "customer_overview" -> {<<"A">>, <<"B">>, Missing}
      [] report = "domains" -> {<<"A">>, <<"B">>}
      [] report = "response_time" -> {CategoryText["Within first hour"], CategoryText["Not set"]}

\* Ticket i of period k: upstream writes the first one 'ticket/<id>'.
ReportRow(report, k, i, v) ==
    LET id == IF i = 1 THEN <<"t", "i", "c", "k", "e", "t", "/">> \o str_int(10 * k + i) ELSE str_int(10 * k + i)
    IN IF v = Missing THEN (Id :> id) ELSE (Id :> id) @@ (GroupColumn(report) :> v)

ReportTables(report, k) ==
    UNION {{[i \in 1..n |-> ReportRow(report, k, i, g[i])] : g \in [1..n -> GroupValues(report)]} :
           n \in 0..MaxReportRows}

\* What render_time_filter returns: years in ascending order, quarters in
\* the order of (year, quarter).
ReportSelections ==
    {[filter_mode |-> "years", selected_periods |-> <<2023>>],
     [filter_mode |-> "years", selected_periods |-> <<2023, 2024>>],
     [filter_mode |-> "quarters", selected_periods |-> <<<<2023, 1>>>>],
     [filter_mode |-> "quarters", selected_periods |-> <<<<2023, 1>>, <<2023, 2>>>>],
     [filter_mode |-> "quarters", selected_periods |-> <<<<2023, 2>>, <<2024, 1>>>>]}

period_labels(selection) ==
    [k \in 1..Len(selection.selected_periods) |->
        label(selection.filter_mode, selection.selected_periods[k])]

BaseUrls == {<<>>, <<"u">>}

\* A page has the tables of its selected periods; the response times page
\* selects years only and writes no links.
InitReport ==
    /\ Quiet
    /\ \E report \in Reports, selection \in ReportSelections, base_url \in BaseUrls :
          /\ report = "response_time" => (selection.filter_mode = "years" /\ base_url = <<>>)
          /\ LET labels == period_labels(selection)
             IN \E tables \in [1..Len(labels) -> UNION {ReportTables(report, k) : k \in 1..Len(labels)}] :
                   /\ \A k \in 1..Len(labels) : tables[k] \in ReportTables(report, k)
                   /\ arg = [report |-> report, base_url |-> base_url,
                             period_labels |-> labels,
                             dfs_by_period |-> [l \in {labels[k] : k \in 1..Len(labels)} |->
                                 tables[CHOOSE k \in 1..Len(labels) : labels[k] = l]]]
    /\ res = <<>>
    /\ pc = "in"

\* md_content = the page's report generator on the tables of the periods
generate_report ==
    /\ pc = "in"
    /\ res' = CASE arg.report = "customer_overview" ->
                      customer_markdown_report(arg.base_url, arg.dfs_by_period)
                [] arg.report = "domains" ->
                      generate_domains_markdown_report(arg.base_url, arg.dfs_by_period,
                                                       arg.period_labels)
                [] arg.report = "response_time" -> response_markdown_report(arg.dfs_by_period)
    /\ pc' = "out"
    /\ UNCHANGED <<restVars, arg>>

NextReport == generate_report

SpecReport == InitReport /\ [][NextReport]_vars

\* The lines of the exported text.
ReportLines == split(res, Newline)

IsPeriodLine(l) == starts_with(l, <<"#", "#", " ">>)
IsGroupLine(l) == starts_with(l, <<"#", "#", "#", " ">>)
IsTicketLine(l) == starts_with(l, <<"-", " ", "[">>) /\ ends_with(l, <<")">>)

PeriodLines == {i \in 1..Len(ReportLines) : IsPeriodLine(ReportLines[i])}
GroupLines == {i \in 1..Len(ReportLines) : IsGroupLine(ReportLines[i])}

\* The lines under heading i, up to the next heading.
Under(i) ==
    {j \in (i + 1)..Len(ReportLines) :
        \A h \in (i + 1)..j : h \notin PeriodLines \cup GroupLines}

TicketLinesUnder(i) == {j \in Under(i) : IsTicketLine(ReportLines[j])}

\* The period heading a line is under.
PeriodLineOf(i) == CHOOSE p \in PeriodLines : p < i /\ \A q \in PeriodLines : q < i => q <= p

CountSuffix(n) == <<" ", "(">> \o str_int(n) \o <<" ", "t", "i", "c", "k", "e", "t", "s", ")">>

\* The group key of a heading "### <key> (<n> tickets)".
GroupKeyOf(i) ==
    LET l == ReportLines[i]
    IN SubSeq(l, 5, Len(l) - Len(CountSuffix(Cardinality(TicketLinesUnder(i)))))

\* The link the export is to write for a ticket.
TicketLine(id) == <<"-", " ">> \o format_ticket_link_markdown(arg.base_url, id)

\* C23: every report's export has its periods sorted by label and, inside a
\* period, its groups sorted by key; a period is "## <period>", a group
\* "### <group> (<n> tickets)" with n the number of ticket lines under it, and
\* every grouped ticket has its line "- [<id>](<url>)" under its group.
C23_ReportFormat ==
    pc = "out" =>
        /\ \A k \in 1..Len(arg.period_labels) :
              \E p \in PeriodLines : ReportLines[p] = <<"#", "#", " ">> \o arg.period_labels[k]
        /\ \A p, q \in PeriodLines :
              p < q => str_le(SubSeq(ReportLines[p], 4, Len(ReportLines[p])),
                              SubSeq(ReportLines[q], 4, Len(ReportLines[q])))
        /\ \A g \in GroupLines :
              ends_with(ReportLines[g], CountSuffix(Cardinality(TicketLinesUnder(g))))
        /\ \A g, h \in GroupLines :
              (g < h /\ PeriodLineOf(g) = PeriodLineOf(h)) => str_le(GroupKeyOf(g), GroupKeyOf(h))
        /\ \A l \in DOMAIN arg.dfs_by_period :
              LET df == arg.dfs_by_period[l]
              IN \A i \in 1..Len(df) :
                    GroupColumn(arg.report) \in DOMAIN df[i] =>
                        \E g \in GroupLines :
                            /\ ReportLines[PeriodLineOf(g)] = <<"#", "#", " ">> \o l
                            /\ GroupKeyOf(g) = df[i][GroupColumn(arg.report)]
                            /\ \E j \in TicketLinesUnder(g) :
                                  ReportLines[j] = TicketLine(df[i][Id])

\* The customer overview's export in years mode is as C23 says.
CustomerYearsReportFormat ==
    (arg.report = "customer_overview" /\ Len(arg.period_labels[1]) = 4) => C23_ReportFormat

-----------------------------------------------------------------------------
(* The login gate: main.py *)

\* The handlers of the report pages.
ReportHandlers == {"fetch_data", "convert_created"}

\* C24: logged_in becomes true only by a login whose response body contains
\* "200 Ok", and a login response without it leaves logged_in, password and
\* cookie jar as they were; a report page runs only while logged_in is true;
\* after logout logged_in is false and password and cookie jar are cleared.
C24_LoginGate ==
    [][/\ (~logged_in /\ logged_in') =>
              (call'.op = "login" /\ contains(call'.request, Ok200))
       /\ (call'.op = "login" /\ ~contains(call'.request, Ok200)) =>
              UNCHANGED <<logged_in, password, cookie_jar>>
       /\ (call'.op \in ReportHandlers /\ call' # call) => (logged_in /\ logged_in')
       /\ call'.op = "logout" =>
              (~logged_in' /\ password' = <<>> /\ cookie_jar' = "None")]_vars

\* A report page has run in a session that a "200 Ok" login opened.
C24_Witness ==
    /\ logged_in
    /\ password # <<>>
    /\ cookie_jar = "cookies"
    /\ call.op = "fetch_data"
    /\ now > 0

-----------------------------------------------------------------------------
(* Cache keys: utils.py, get_cache_key as fetch_data calls it *)

\* The most pieces a query or field text is made of.
MaxKeyPieces == 2

KeyPieces == {<<"a">>, <<"_">>}

KeyTexts == {Str(q) : q \in SeqsUpTo(KeyPieces, MaxKeyPieces)} \ {<<>>}

KeyUsers == {<<"u">>}

KeyCalls == [year : Years, query : KeyTexts, fields : KeyTexts]

\* Two fetch_data calls of one session.
InitKeys ==
    /\ Quiet
    /\ \E user \in KeyUsers, first \in KeyCalls, second \in KeyCalls :
          arg = [user |-> user, first |-> first, second |-> second]
    /\ res = <<>>
    /\ pc = "in"

\* What a call's key is made from: year, query, the fields after Created is
\* ensured, and the acting user.
KeyTuple(c, user) == <<c.year, c.query, ensure_created(c.fields), user>>

\* fetch_data, up to cache_key = get_cache_key(year, query, fields), with
\* st.session_state.username = user
fetch_data_key(c, user) == md5(key_string(c.year, c.query, ensure_created(c.fields), user))

cache_keys ==
    /\ pc = "in"
    /\ res' = [first |-> fetch_data_key(arg.first, arg.user),
               second |-> fetch_data_key(arg.second, arg.user)]
    /\ pc' = "out"
    /\ UNCHANGED <<restVars, arg>>

NextKeys == cache_keys

SpecKeys == InitKeys /\ [][NextKeys]_vars

\* C25: two calls share a cache entry exactly when their (year, query,
\* fields after Created is ensured, user) tuples are equal.
C25_KeysSeparateRequests ==
    pc = "out" =>
        ((res.first = res.second) <=>
            (KeyTuple(arg.first, arg.user) = KeyTuple(arg.second, arg.user)))

\* Calls whose query and fields hold no "_" have keys as C25 says.
KeysSeparateWithoutUnderscore ==
    (/\ pc = "out"
     /\ \A c \in {arg.first, arg.second} :
           ~contains(c.query, <<"_">>) /\ ~contains(c.fields, <<"_">>)) =>
        ((res.first = res.second) <=>
            (KeyTuple(arg.first, arg.user) = KeyTuple(arg.second, arg.user)))

-----------------------------------------------------------------------------
(* Top-N companies: customer_overview.py, prepare_top_companies *)

\* The keys of the dict process_companies_data fills, in the order in which
\* they were inserted.
RECURSIVE first_seen(_)
first_seen(cells) ==
    IF cells = <<>> THEN <<>>
    ELSE LET before == first_seen(SubSeq(cells, 1, Len(cells) - 1))
             last == cells[Len(cells)]
         IN IF last \in Range(before) THEN before ELSE Append(before, last)

\* companies.items() of the dict process_companies_data(df) returns
companies_items(f) ==
    LET keys == first_seen(company_cells(f.rows))
        companies == process_companies_data(f).companies
    IN [i \in 1..Len(keys) |-> <<keys[i], companies[keys[i]]>>]

\* A sort by count that puts the later of two equal counts first.
RECURSIVE sorted_by_tickets_unstable(_)
sorted_by_tickets_unstable(items) ==
    IF items = <<>> THEN <<>>
    ELSE LET top == CHOOSE i \in 1..Len(items) :
                        \A j \in 1..Len(items) :
                            items[i][2] > items[j][2] \/ (items[i][2] = items[j][2] /\ i >= j)
         IN <<items[top]>> \o
            sorted_by_tickets_unstable(SubSeq(items, 1, top - 1) \o SubSeq(items, top + 1, Len(items)))

\* sorted(items, key=lambda x: x[1], reverse=True): a stable sort, which
\* keeps items of equal count in the order they have.
RECURSIVE sorted_by_tickets(_)
sorted_by_tickets(items) ==
    IF items = <<>> THEN <<>>
    ELSE LET top == CHOOSE i \in 1..Len(items) :
                        \A j \in 1..Len(items) :
                            items[i][2] > items[j][2] \/ (items[i][2] = items[j][2] /\ i <= j)
         IN <<items[top]>> \o
            sorted_by_tickets(SubSeq(items, 1, top - 1) \o SubSeq(items, top + 1, Len(items)))

\* prepare_top_companies(companies, top_n): the rows (Company, Tickets)
prepare_top_companies(items, top_n) ==
    LET ranked == sorted_by_tickets(items)
    IN SubSeq(ranked, 1, Least(top_n, Len(ranked)))

\* The most tickets of the table of a period.
MaxTopRows == 4

TopCompanies == {<<"A">>, <<"B">>, <<"C">>, Missing}

TopRow(i, company) ==
    IF company = Missing THEN (Id :> str_int(i)) ELSE (Id :> str_int(i)) @@ (CompanyField :> company)

TopTables ==
    UNION {{[i \in 1..n |-> TopRow(i, c[i])] : c \in [1..n -> TopCompanies]} : n \in 0..MaxTopRows}

\* The page has the table of a period and the slider's top_n, between 1 and
\* the number of companies.
InitTop ==
    /\ Quiet
    /\ \E t \in TopTables :
          \E top_n \in 1..Greatest(Cardinality(Range(company_cells(t))), 1) :
              arg = [df |-> Frame(t), top_n |-> top_n]
    /\ res = <<>>
    /\ pc = "in"

\* companies = process_companies_data(df) and, if companies,
\* df_top = prepare_top_companies(companies, top_n)
top_companies ==
    /\ pc = "in"
    /\ LET processed == process_companies_data(arg.df)
       IN res' = IF processed.error # "" THEN [error |-> processed.error, df_top |-> <<>>]
                 ELSE [error |-> "",
                       df_top |-> IF DOMAIN processed.companies # {}
                                  THEN prepare_top_companies(companies_items(arg.df), arg.top_n)
                                  ELSE <<>>]
    /\ pc' = "out"
    /\ UNCHANGED <<restVars, arg>>

NextTop == top_companies

SpecTop == InitTop /\ [][NextTop]_vars

\* The tickets of a company in the table, and the row of its first one.
TicketsOf(company) ==
    Cardinality({i \in 1..Len(arg.df.rows) :
                    CompanyField \in DOMAIN arg.df.rows[i] /\ arg.df.rows[i][CompanyField] = company})

FirstTicketOf(company) ==
    CHOOSE i \in 1..Len(arg.df.rows) :
        /\ CompanyField \in DOMAIN arg.df.rows[i] /\ arg.df.rows[i][CompanyField] = company
        /\ \A j \in 1..(i - 1) :
              ~(CompanyField \in DOMAIN arg.df.rows[j] /\ arg.df.rows[j][CompanyField] = company)

\* Company c ranks before company d.
RanksBefore(c, d) ==
    \/ TicketsOf(c) > TicketsOf(d)
    \/ TicketsOf(c) = TicketsOf(d) /\ FirstTicketOf(c) < FirstTicketOf(d)

\* C26: prepare_top_companies returns min(N, number of companies) entries,
\* by ticket count descending and, for equal counts, in the order in which
\* the companies were first seen; each count is the number of records with
\* that company, and no company left out ranks before one that is listed.
C26_TopCompanies ==
    (pc = "out" /\ res.error = "") =>
        LET all == TopCompanies \ {Missing}
            present == {c \in all : TicketsOf(c) > 0}
            listed == {res.df_top[i][1] : i \in 1..Len(res.df_top)}
        IN /\ Len(res.df_top) = Least(arg.top_n, Cardinality(present))
           /\ Cardinality(listed) = Len(res.df_top)
           /\ listed \subseteq present
           /\ \A i \in 1..Len(res.df_top) : res.df_top[i][2] = TicketsOf(res.df_top[i][1])
           /\ \A i, j \in 1..Len(res.df_top) :
                 i < j => RanksBefore(res.df_top[i][1], res.df_top[j][1])
           /\ \A c \in present \ listed : \A d \in listed : RanksBefore(d, c)

\* Three companies, the two of equal count first seen in the order B, A, and
\* a top 2 that keeps B and leaves A out.
C26_Witness ==
    /\ pc = "out"
    /\ res.error = ""
    /\ arg.top_n = 2
    /\ TicketsOf(<<"C">>) = 2 /\ TicketsOf(<<"B">>) = 1 /\ TicketsOf(<<"A">>) = 1
    /\ FirstTicketOf(<<"B">>) < FirstTicketOf(<<"A">>)
    /\ res.df_top = <<<<<<"C">>, 2>>, <<<<"B">>, 1>>>>

-----------------------------------------------------------------------------
(* The second memoization layer: @st.cache_data on fetch_and_process_data of
   sections/requestors.py (and of sections/response_time.py) *)

\* The page's query_params.
MemoQuery == <<"q">>
MemoFields == Id \o Comma \o Created

\* res.memo is the store of st.cache_data, from the arguments of
\* fetch_and_process_data to what it returned and when upstream gave it;
\* res.shown is what the latest render displayed.
InitMemo ==
    /\ env_username = <<"u">>
    /\ username = <<"u">>
    /\ password = <<"p">>
    /\ logged_in = TRUE
    /\ cookie_jar = "cookies"
    /\ session_attrs = {}
    /\ data_cache = EmptyMap
    /\ cache_timestamps = EmptyMap
    /\ heap = EmptyMap
    /\ ret = NoObject
    /\ now = 0
    /\ upstream \in [Requests -> Responses]
    /\ call = Handled("main")
    /\ origin = EmptyMap
    /\ stale = {}
    /\ last_empty = EmptyMap
    /\ arg = <<>>
    /\ res = [memo |-> EmptyMap, shown |-> <<>>]
    /\ pc = "idle"

\* df = fetch_and_process_data(year, query_params), the arguments already in
\* the store of st.cache_data: the stored value is returned and the function
\* body does not run.
memo_hit(year) ==
    /\ "requestors" \in navigation
    /\ year \in DOMAIN res.memo
    /\ res' = [res EXCEPT !.shown = [year |-> year, df |-> res.memo[year].df,
                                     age |-> now - res.memo[year].obtained,
                                     requests |-> 0]]
    /\ pc' = "shown"
    /\ UNCHANGED <<sessionVars, cacheVars, heap, ret, now, upstream, call, historyVars, arg>>

\* df = fetch_and_process_data(year, query_params), the arguments new to
\* st.cache_data: the body calls fetch_data and the result is stored, with no
\* ttl.
memo_miss(year) ==
    /\ year \notin DOMAIN res.memo
    /\ fetch_data_call(year, MemoQuery, MemoFields, TRUE)
    /\ LET obtained == IF call'.served = "upstream" THEN now ELSE cache_timestamps[call'.key]
       IN res' = [memo |-> (year :> [df |-> heap'[ret'], obtained |-> obtained]) @@ res.memo,
                  shown |-> [year |-> year, df |-> heap'[ret'], age |-> now - obtained,
                             requests |-> call'.requests]]
    /\ pc' = "shown"
    /\ UNCHANGED <<sessionVars, now, upstream, arg>>

NextMemo ==
    \/ \E year \in Years : memo_hit(year)
    \/ \E year \in Years : memo_miss(year)
    \/ Tick
    \/ \E r \in Requests, text \in Responses : UpstreamChange(r, text)

SpecMemo == InitMemo /\ [][NextMemo]_vars

\* C27: the table a render displays was obtained from upstream less than
\* the TTL before the render.
C27_NoTableOlderThanTTL ==
    pc = "shown" => res.shown.age < TTL

\* A render that runs the body of fetch_and_process_data displays a table
\* younger than the TTL.
MissIsYoungerThanTTL ==
    (pc = "shown" /\ res.shown.requests = 1) => res.shown.age = 0

-----------------------------------------------------------------------------
(* The cache operations of utils.py, called in any order *)

\* The keys and tables the operations are called with.
CacheKeys == {get_cache_key(year, query, ensure_created(fields)) :
                 year \in Years, query \in Queries, fields \in FieldInputs}

CacheTables == {Parsed[text] : text \in Responses}

InitCache ==
    /\ env_username = <<"u">>
    /\ username = <<"u">>
    /\ password = <<"p">>
    /\ logged_in = TRUE
    /\ cookie_jar = "cookies"
    /\ session_attrs = {}
    /\ data_cache = EmptyMap
    /\ cache_timestamps = EmptyMap
    /\ heap = EmptyMap
    /\ ret = NoObject
    /\ now = 0
    /\ upstream \in [Requests -> Responses]
    /\ call = Handled("main")
    /\ origin = EmptyMap
    /\ stale = {}
    /\ last_empty = EmptyMap
    /\ arg = <<>>
    /\ res = <<>>
    /\ pc = "off"

\* init_cache()
init_cache_call ==
    /\ session_attrs' = init_cache
    /\ ret' = NoObject
    /\ heap' = Collect(heap, data_cache, NoObject)
    /\ call' = Handled("init_cache")
    /\ UNCHANGED <<sessionVars, data_cache, cache_timestamps, now, upstream, historyVars, fnVars>>

\* set_cached_data(cache_key, df)
set_cached_data(cache_key, df) ==
    LET stored == copy(<<"df">>, Stored(cache_key))
        dc2 == (cache_key :> stored) @@ data_cache
    IN /\ session_attrs' = init_cache
       /\ data_cache' = dc2
       /\ cache_timestamps' = (cache_key :> now) @@ cache_timestamps
       /\ heap' = Collect(Put(heap, stored, df), dc2, NoObject)
       /\ ret' = NoObject
       /\ call' = [Handled("set_cached_data") EXCEPT !.key = cache_key]
       /\ UNCHANGED <<sessionVars, now, upstream, historyVars, fnVars>>

\* get_cached_data(cache_key), called on its own
get_cached_data_call(cache_key) ==
    LET cached_df == get_cached_data(cache_key)
    IN /\ session_attrs' = init_cache
       /\ ret' = cached_df
       /\ heap' = IF cached_df # NoObject
                  THEN Collect(Put(heap, cached_df, heap[data_cache[cache_key]]),
                               data_cache, cached_df)
                  ELSE Collect(heap, data_cache, NoObject)
       /\ call' = [Handled("get_cached_data") EXCEPT !.key = cache_key]
       /\ UNCHANGED <<sessionVars, data_cache, cache_timestamps, now, upstream,
                      historyVars, fnVars>>

NextCache ==
    \/ init_cache_call
    \/ \E cache_key \in CacheKeys, df \in CacheTables : set_cached_data(cache_key, df)
    \/ \E cache_key \in CacheKeys : get_cached_data_call(cache_key)
    \/ \E year \in Years, query \in Queries, fields \in FieldInputs, use_cache \in BOOLEAN :
           fetch_data(year, query, fields, use_cache)
    \/ clear_cache
    \/ Tick

SpecCache == InitCache /\ [][NextCache]_vars

\* C28: the table store and the timestamp store have the same keys, both
\* exist or neither does, and right after clear_cache both are empty.
C28_StoresAgree ==
    /\ DOMAIN data_cache = DOMAIN cache_timestamps
    /\ ("data_cache" \in session_attrs) = ("cache_timestamps" \in session_attrs)
    /\ DOMAIN data_cache # {} => "data_cache" \in session_attrs
    /\ call.op = "clear_cache" => (data_cache = EmptyMap /\ cache_timestamps = EmptyMap)

\* clear_cache has run in a session whose stores exist, after a fetch that
\* brought tickets, and both stores are empty.
C28_Witness ==
    /\ call.op = "clear_cache"
    /\ data_cache = EmptyMap
    /\ cache_timestamps = EmptyMap
    /\ "data_cache" \in session_attrs
    /\ \E k \in DOMAIN last_empty : last_empty[k] = "no"
    /\ now > 0

-----------------------------------------------------------------------------
(* New customers across the periods of one render of the customer overview *)

\* C29: of two periods the page has reported on, no company is a new customer
\* of both, and no new customer of a period has a ticket in a period strictly
\* before it.
C29_NewInOnePeriodOnly ==
    pc \in {"previous_years", "previous_quarters", "report", "markdown", "done", "error"} =>
        /\ \A k, l \in 1..Len(res.reports) :
              k < l => res.reports[k].new_companies \cap res.reports[l].new_companies = {}
        /\ \A k \in 1..Len(res.reports) :
              res.reports[k].new_companies
                  \cap CompaniesBefore(arg.filter_mode, res.reports[k].period) = {}

\* Both selectable years reported: B is a customer of both and new in 2019
\* only, and 2020 has a new customer of its own.
C29_Witness ==
    /\ pc = "done"
    /\ arg.filter_mode = "years"
    /\ Len(res.reports) = 2
    /\ <<"B">> \in YearCompanies(2019) \cap YearCompanies(2020)
    /\ <<"B">> \in res.reports[1].new_companies
    /\ <<"B">> \notin res.reports[2].new_companies
    /\ res.reports[2].new_companies # {}

-----------------------------------------------------------------------------
(* The yearly and monthly counts of the help queue overview in years mode *)

\* The most tickets of the ticket system.
MaxYearTickets == 2

\* Created texts at the two ends of 2023, and one inside 2024.
YearCreatedTexts ==
    {created_text(12, <<"3", "1">>, Noon, 2022),
     created_text(1, <<"0", "1">>, Midnight, 2023),
     created_text(12, <<"3", "1">>, LastSecond, 2023),
     created_text(1, <<"0", "1">>, Midnight, 2024),
     created_text(2, <<"2", "9">>, Noon, 2024)}

\* The tickets of the ticket system: ticket i has the i-th Created text.
UpstreamTickets == UNION {[1..n -> YearCreatedTexts] : n \in 0..MaxYearTickets}

\* The years selected in the time filter.
SelectedYears == {<<2023>>, <<2024>>, <<2023, 2024>>}

\* fetch_data(year, query, fields): the tickets that meet the Created
\* condition sent for the year.
fetch_year(tickets, year) ==
    LET all == [i \in 1..Len(tickets) |-> [id |-> i, Created |-> tickets[i]]]
        Test(row) == created_condition(year, strptime(row.Created))
    IN SelectSeq(all, Test)

\* df['Created'] = pd.to_datetime(...); df['Year'] = df['Created'].dt.year;
\* df['Month'] = df['Created'].dt.month
year_month(df) ==
    [i \in 1..Len(df) |->
        [id |-> df[i].id,
         Year |-> timestamp_year(strptime(df[i].Created)),
         Month |-> month(strptime(df[i].Created))]]

RECURSIVE ascending(_)
\* The numbers of a set from the least to the greatest.
ascending(S) ==
    IF S = {} THEN <<>>
    ELSE LET least == CHOOSE x \in S : \A y \in S : x <= y
         IN <<least>> \o ascending(S \ {least})

\* df.groupby(['Year', 'Month']).size().reset_index(name='Ticket Count')
monthly_counts(df) ==
    LET key(i) == df[i].Year * 12 + (df[i].Month - 1)
        keys == ascending({key(i) : i \in 1..Len(df)})
    IN [j \in 1..Len(keys) |->
           [Year |-> keys[j] \div 12,
            Month |-> (keys[j] % 12) + 1,
            TicketCount |-> Cardinality({i \in 1..Len(df) : key(i) = keys[j]})]]

\* df['Year'].value_counts().reset_index(name='Ticket Count'), in the order of
\* the years (the order is lost in the sum by year that follows).
yearly_count(df) ==
    LET years == ascending({df[i].Year : i \in 1..Len(df)})
    IN [j \in 1..Len(years) |->
           [Year |-> years[j],
            TicketCount |-> Cardinality({i \in 1..Len(df) : df[i].Year = years[j]})]]

RECURSIVE sum_ticket_count(_)
sum_ticket_count(rows) ==
    IF rows = <<>> THEN 0 ELSE Head(rows).TicketCount + sum_ticket_count(Tail(rows))

\* pd.concat(yearly_ticket_counts).groupby('Year').sum().reset_index()
sum_by_year(rows) ==
    LET years == ascending({rows[i].Year : i \in 1..Len(rows)})
    IN [j \in 1..Len(years) |->
           LET OfYear(row) == row.Year = years[j]
           IN [Year |-> years[j],
               TicketCount |-> sum_ticket_count(SelectSeq(rows, OfYear))]]

RECURSIVE monthly_ticket_data(_, _)
\* The loop of load_data_years and pd.concat(monthly_ticket_data): the monthly
\* counts of every selected year whose table is not empty, one after the other.
monthly_ticket_data(tickets, selected_years) ==
    IF selected_years = <<>> THEN <<>>
    ELSE LET df == fetch_year(tickets, Head(selected_years))
         IN (IF ~empty(df) THEN monthly_counts(year_month(df)) ELSE <<>>)
                \o monthly_ticket_data(tickets, Tail(selected_years))

RECURSIVE yearly_ticket_counts(_, _)
\* The loop of load_data_years and pd.concat(yearly_ticket_counts)
yearly_ticket_counts(tickets, selected_years) ==
    IF selected_years = <<>> THEN <<>>
    ELSE LET df == fetch_year(tickets, Head(selected_years))
         IN (IF ~empty(df) THEN yearly_count(year_month(df)) ELSE <<>>)
                \o yearly_ticket_counts(tickets, Tail(selected_years))

\* data.pivot(index='Month', columns='Year', values='Ticket Count'), which
\* raises ValueError when two rows have the same Month and Year.
pivot(data) ==
    IF \E j, k \in 1..Len(data) :
          j # k /\ data[j].Year = data[k].Year /\ data[j].Month = data[k].Month
    THEN "ValueError" ELSE ""

\* The time filter is in years mode with some years selected.
InitYears ==
    /\ Quiet
    /\ \E tickets \in UpstreamTickets, selected_years \in SelectedYears :
          arg = [tickets |-> tickets, selected_years |-> selected_years]
    /\ res = <<>>
    /\ pc = "in"

\* help_overview.py in years mode: load_data_years, then plot_monthly_tickets
\* when the combined monthly table is not empty.
help_overview_years ==
    /\ pc = "in"
    /\ LET combined_monthly_df == monthly_ticket_data(arg.tickets, arg.selected_years)
           combined_yearly_df ==
               sum_by_year(yearly_ticket_counts(arg.tickets, arg.selected_years))
       IN res' = [combined_monthly_df |-> combined_monthly_df,
                  combined_yearly_df |-> combined_yearly_df,
                  all_dfs |-> [j \in 1..Len(arg.selected_years) |->
                                  year_month(fetch_year(arg.tickets, arg.selected_years[j]))],
                  error |-> IF ~empty(combined_monthly_df)
                            THEN pivot(combined_monthly_df) ELSE ""]
    /\ pc' = "out"
    /\ UNCHANGED <<restVars, arg>>

NextYears == help_overview_years

SpecYears == InitYears /\ [][NextYears]_vars

\* The year a ticket of the ticket system was created in.
CreatedYear(i) == timestamp_year(strptime(arg.tickets[i]))

\* C30: in years mode every ticket counts once in the total of the year it
\* was created in, the combined monthly table has one row at most for a year
\* and a month, and the table of a year holds tickets created in that year
\* only.
C30_EachTicketCountedOnce ==
    pc = "out" =>
        /\ \A j \in 1..Len(res.combined_yearly_df) :
              res.combined_yearly_df[j].TicketCount =
                  Cardinality({i \in 1..Len(arg.tickets) :
                                  CreatedYear(i) = res.combined_yearly_df[j].Year})
        /\ \A j, k \in 1..Len(res.combined_monthly_df) :
              j # k => <<res.combined_monthly_df[j].Year, res.combined_monthly_df[j].Month>>
                           # <<res.combined_monthly_df[k].Year, res.combined_monthly_df[k].Month>>
        /\ \A j \in 1..Len(arg.selected_years) : \A i \in 1..Len(res.all_dfs[j]) :
              res.all_dfs[j][i].Year = arg.selected_years[j]

\* With no ticket of a December 31 the counts are as claimed.
NoDecember31 ==
    \A i \in 1..Len(arg.tickets) :
        arg.tickets[i] \notin {created_text(12, <<"3", "1">>, Noon, 2022),
                               created_text(12, <<"3", "1">>, LastSecond, 2023)}

CountedOnceWithoutDecember31 ==
    NoDecember31 => C30_EachTicketCountedOnce

\* The chart of the monthly counts raises on a ticket of December 31 when its
\* year and the next are selected.
PivotRaises ==
    pc = "out" /\ res.error = "ValueError"

====
